---- MODULE Spec2Model ----
(***************************************************************************)
(* Knowledge-base backend: per-company vector stores on disk, saved PDF    *)
(* files, the company_documents table and the HTTP routes over them.        *)
(*                                                                         *)
(* Strings that the code inspects character by character (company names,   *)
(* file names, the first bytes of an upload, path strings) are sequences   *)
(* of one-character strings.  A filesystem path (pathlib.Path) is a        *)
(* sequence of components, each component such a character sequence.       *)
(* Messages are sequences of fragments, so that "contains" and "starts     *)
(* with" are computed on them.                                             *)
(***************************************************************************)
EXTENDS Integers, Sequences, FiniteSets, TLC

VARIABLES
    faults,     \* how many external calls have failed so far
    files,      \* saved uploads: Path -> content, DOMAIN = the files on disk
    stores,     \* vector store tree: Path -> set of chunks persisted in that
                \* directory, DOMAIN = the directories that exist
    records,    \* company_documents table: id -> row, DOMAIN = existing ids
    last,       \* the call that completed last: request, outcome, response
    n1, n2,     \* a pair of company names the pure path function is applied to
    workers,    \* the position of each of two executions of
                \* upload_and_process_pdf that run at the same time
    chat        \* the call of OpenAIService.get_assistant_response: where it
                \* is, what it has sent, how it ended

vars == <<faults, files, stores, records, last, n1, n2, workers, chat>>

----------------------------------------------------------------------------
(* Bounds of the model *)

\* ids the table may hand out (the table never holds more rows than this)
MaxId == 2

\* longest company name the path function is explored on
MaxNameLen == 2

\* external calls that fail in one run
MaxFaults == 1

----------------------------------------------------------------------------
(* Program constants *)

\* Retry(total=3) in OpenAIService.__init__
RetryTotal == 3

chunk_size == 1000
chunk_overlap == 200
RetrieverK == 4
MaxSources == 3
SnippetLen == 200
ConfidenceTenths == 8

----------------------------------------------------------------------------
(* Character sequences *)

EmptyFn == [x \in {} |-> {}]

Restrict(f, S) == [x \in S |-> f[x]]

\* str.replace(old, new) for one-character old and new
Replace(s, old, new) == [i \in 1..Len(s) |-> IF s[i] = old THEN new ELSE s[i]]

\* str.lower() on the characters the model draws from
LowerChar(ch) ==
    CASE ch = "P" -> "p"
      [] ch = "D" -> "d"
      [] ch = "F" -> "f"
      [] ch = "E" -> "e"
      [] ch = "T" -> "t"
      [] ch = "R" -> "r"
      [] ch = "U" -> "u"
      [] OTHER -> ch

Lower(s) == [i \in 1..Len(s) |-> LowerChar(s[i])]

\* str.endswith / bytes.startswith
EndsWith(s, suffix) ==
    /\ Len(s) >= Len(suffix)
    /\ SubSeq(s, Len(s) - Len(suffix) + 1, Len(s)) = suffix

StartsWith(s, prefix) ==
    /\ Len(s) >= Len(prefix)
    /\ SubSeq(s, 1, Len(prefix)) = prefix

\* whether character ch occurs in s
HasChar(s, ch) == \E i \in 1..Len(s) : s[i] = ch

\* whether the fixed text frag occurs in message msg
Contains(msg, frag) == \E i \in 1..Len(msg) : msg[i] = <<frag>>

----------------------------------------------------------------------------
(* Paths *)

\* Path(os.getenv("VECTOR_STORE_BASE_DIR", "./vector_stores"))
base_dir == << <<"v">> >>

\* Path(os.getenv("PDF_UPLOADS_DIR", "./pdf_uploads"))
uploads_dir == << <<"u">> >>

\* pathlib's  path / name  for a name without "/": an empty name and the
\* name "." add no component, every other name adds one component.
PathJoin(path, name) ==
    IF name = <<>> \/ name = <<".">> THEN path ELSE Append(path, name)

IsPrefix(p, q) == Len(p) <= Len(q) /\ SubSeq(q, 1, Len(p)) = p

\* str(path): the components joined by "/"
RECURSIVE PathStr(_)
PathStr(path) ==
    IF Len(path) = 0 THEN <<>>
    ELSE IF Len(path) = 1 THEN path[1]
    ELSE PathStr(SubSeq(path, 1, Len(path) - 1)) \o <<"/">> \o path[Len(path)]

\* the path a string names, as os.path.exists / os.remove / shutil.rmtree
\* resolve it: the string split at "/"
RECURSIVE PathOf(_)
PathOf(s) ==
    IF ~HasChar(s, "/") THEN (IF s = <<>> THEN <<>> ELSE <<s>>)
    ELSE LET i == CHOOSE k \in 1..Len(s) :
                      s[k] = "/" /\ \A j \in (k+1)..Len(s) : s[j] # "/"
         IN  PathJoin(PathOf(SubSeq(s, 1, i - 1)), SubSeq(s, i + 1, Len(s)))

\* company_name.replace(" ", "_").replace("/", "_")
\* (knowledge_base_service.py:39 and company_document_service.py:36)
SafeCompanyName(company_name) ==
    Replace(Replace(company_name, " ", "_"), "/", "_")

\* KnowledgeBaseService.get_vector_store_path
get_vector_store_path(company_name) ==
    PathJoin(base_dir, SafeCompanyName(company_name))

----------------------------------------------------------------------------
(* Inputs *)

\* company names: two that collide after normalisation, and the name ".",
\* which pathlib drops
Companies == { <<"a", " ", "b">>, <<"a", "/", "b">>, <<".">> }

ValidName == <<"d", ".", "P", "d", "f">>

\* file names of an upload; <<>> is a missing file name
FileNames == { ValidName, <<"t", ".", "t", "x", "t">>, <<>> }

PdfMagic == <<"%", "P", "D", "F">>

\* Uploaded bytes: head is the first bytes, pages the length of the text of
\* each page (the text has no separator characters), doc names the document.
PdfA == [head |-> <<"%", "P", "D", "F", "-">>, doc |-> "A", pages |-> <<150>>]
PdfB == [head |-> <<"%", "P", "D", "F", "-">>, doc |-> "B", pages |-> <<250, 1900>>]
PdfNoPages == [head |-> <<"%", "P", "D", "F", "-">>, doc |-> "E", pages |-> <<>>]
NotPdf == [head |-> <<"T", "h", "i", "s">>, doc |-> "N", pages |-> <<150>>]

Contents == {PdfA, PdfB, PdfNoPages, NotPdf}

Questions == {"q1", "q2"}

Ids == 1..MaxId

\* ids a request may name: the ids of the table and one no row ever has
RequestIds == 1..(MaxId + 1)

----------------------------------------------------------------------------
(* The retrieval framework, as the services use it *)

\* PyPDFLoader(file_path).load(): one document per page
Load(content) ==
    [i \in 1..Len(content.pages) |->
        [doc |-> content.doc, page |-> i - 1, start |-> 0, len |-> content.pages[i]]]

\* RecursiveCharacterTextSplitter(chunk_size, chunk_overlap) on one page of
\* separator-free text: windows of chunk_size characters, each starting
\* chunk_size - chunk_overlap after the one before
RECURSIVE Windows(_, _)
Windows(d, from) ==
    IF d.len - from <= chunk_size
    THEN IF d.len - from > 0 THEN <<[d EXCEPT !.start = from, !.len = d.len - from]>>
         ELSE <<>>
    ELSE <<[d EXCEPT !.start = from, !.len = chunk_size]>>
         \o Windows(d, from + chunk_size - chunk_overlap)

RECURSIVE split_documents(_)
split_documents(documents) ==
    IF documents = <<>> THEN <<>>
    ELSE Windows(Head(documents), 0) \o split_documents(Tail(documents))

SeqRange(s) == {s[i] : i \in 1..Len(s)}

\* an rmtree that removes nothing
RmtreeKeepsAll(tree, path) == tree

\* shutil.rmtree(path) on the vector store tree: the directory and all below it
rmtree(tree, path) ==
    Restrict(tree, {q \in DOMAIN tree : ~IsPrefix(path, q)})

\* Chroma.from_documents(documents=splits, persist_directory=str(path)):
\* the directory and its parents are created when missing, and the chunks are
\* added to the collection the directory holds
ChromaOpen(tree, path) ==
    LET made == {SubSeq(path, 1, k) : k \in 1..Len(path)}
    IN  [q \in (DOMAIN tree) \cup made |->
            IF q \in DOMAIN tree THEN tree[q] ELSE {}]

ChromaFromDocuments(tree, path, splits) ==
    [ChromaOpen(tree, path) EXCEPT ![path] = @ \cup SeqRange(splits)]

\* the order in which the retriever ranks the chunks for a question
Before(q, c, d) ==
    LET lt == \/ c.page < d.page
              \/ c.page = d.page /\ c.start < d.start
              \/ c.page = d.page /\ c.start = d.start /\ c.doc = "A" /\ d.doc # "A"
    IN  IF q = "q1" THEN lt ELSE (c # d /\ ~lt)

RECURSIVE Ranked(_, _)
Ranked(chunks, q) ==
    IF chunks = {} THEN <<>>
    ELSE LET best == CHOOSE c \in chunks : \A d \in chunks \ {c} : Before(q, c, d)
         IN  <<best>> \o Ranked(chunks \ {best}, q)

\* vector_store.as_retriever(search_kwargs={"k": 4})
Retrieve(chunks, q) ==
    LET r == Ranked(chunks, q)
    IN  SubSeq(r, 1, IF Len(r) < RetrieverK THEN Len(r) ELSE RetrieverK)

----------------------------------------------------------------------------
(* Service results.  A service call takes the state st = [files, stores,   *)
(* records] and the external call that fails during it (fault, "none" for  *)
(* none), and gives the state after it, whether it raised, the message of  *)
(* the exception and the value returned.                                   *)

State(f, s, r) == [files |-> f, stores |-> s, records |-> r]

Return(st, value) == [st |-> st, raised |-> FALSE, msg |-> <<>>, ret |-> value]

\* raise Exception(prefix + str(e))
Raise(st, msg) == [st |-> st, raised |-> TRUE, msg |-> msg, ret |-> <<>>]

\* a fixed piece of text in a message; a message is a sequence of fragments,
\* a fragment a piece of fixed text or a character sequence put into it
Txt(s) == <<s>>

\* str(e) of the error an external call raises
ErrText(fault) == <<Txt(fault)>>

None == [found |-> FALSE, id |-> 0]

Some(id) == [found |-> TRUE, id |-> id]

----------------------------------------------------------------------------
(* KnowledgeBaseService *)

\* vector_store_path.exists()
DirExists(tree, path) == path \in DOMAIN tree

\* upload_and_process_pdf without the removal of an existing directory
\* (lines 83-85)
UploadNoRmtree(st, file_path, company_name, fault) ==
    LET documents == Load(st.files[PathOf(file_path)])
        splits == split_documents(documents)
        vector_store_path == get_vector_store_path(company_name)
    IN  IF documents = <<>>
        THEN Raise(st, <<Txt("Error processing PDF: "),
                         Txt("PDF file is empty or could not be read")>>)
        ELSE IF fault = "embed"
        THEN Raise([st EXCEPT !.stores = ChromaOpen(@, vector_store_path)],
                   <<Txt("Error processing PDF: ")>> \o ErrText(fault))
        ELSE Return([st EXCEPT !.stores =
                        ChromaFromDocuments(st.stores, vector_store_path, splits)],
                    [vector_store_path |-> PathStr(vector_store_path),
                     document_count |-> Len(documents),
                     chunk_count |-> Len(splits),
                     status |-> "success"])

\* an upload_and_process_pdf that looks at the loaded pages only after it
\* has removed the existing directory
UploadChecksEmptyLate(st, file_path, company_name, fault) ==
    LET documents == Load(st.files[PathOf(file_path)])
        splits == split_documents(documents)
        vector_store_path == get_vector_store_path(company_name)
        removed == rmtree(st.stores, vector_store_path)
    IN  IF PathOf(file_path) \notin DOMAIN st.files
        THEN Raise(st, <<Txt("Error processing PDF: "),
                         Txt("File path is not a valid file or url")>>)
        ELSE IF documents = <<>>
        THEN Raise([st EXCEPT !.stores = removed],
                   <<Txt("Error processing PDF: "),
                     Txt("PDF file is empty or could not be read")>>)
        ELSE IF fault = "chroma"
        THEN Raise([st EXCEPT !.stores = removed],
                   <<Txt("Error processing PDF: ")>> \o ErrText(fault))
        ELSE IF fault = "embed"
        THEN Raise([st EXCEPT !.stores = ChromaOpen(removed, vector_store_path)],
                   <<Txt("Error processing PDF: ")>> \o ErrText(fault))
        ELSE Return([st EXCEPT !.stores =
                        ChromaFromDocuments(removed, vector_store_path, splits)],
                    [vector_store_path |-> PathStr(vector_store_path),
                     document_count |-> Len(documents),
                     chunk_count |-> Len(splits),
                     status |-> "success"])

\* KnowledgeBaseService.upload_and_process_pdf
\* faults: "chroma" (Chroma.from_documents fails before it has made the
\* directory), "embed" (the store is opened, embedding the chunks fails).  A
\* loader or rmtree that fails leaves what a PDF without pages leaves.
upload_and_process_pdf(st, file_path, company_name, fault) ==
    LET documents == Load(st.files[PathOf(file_path)])
        splits == split_documents(documents)
        vector_store_path == get_vector_store_path(company_name)
        existed == DirExists(st.stores, vector_store_path)
        removed == IF existed THEN rmtree(st.stores, vector_store_path)
                   ELSE st.stores
    IN  IF PathOf(file_path) \notin DOMAIN st.files
        THEN Raise(st, <<Txt("Error processing PDF: "),
                         Txt("File path is not a valid file or url")>>)
        ELSE IF documents = <<>>
        THEN Raise(st, <<Txt("Error processing PDF: "),
                         Txt("PDF file is empty or could not be read")>>)
        ELSE IF fault = "chroma"
        THEN Raise([st EXCEPT !.stores = removed],
                   <<Txt("Error processing PDF: ")>> \o ErrText(fault))
        ELSE IF fault = "embed"
        THEN Raise([st EXCEPT !.stores = ChromaOpen(removed, vector_store_path)],
                   <<Txt("Error processing PDF: ")>> \o ErrText(fault))
        ELSE Return([st EXCEPT !.stores =
                        ChromaFromDocuments(removed, vector_store_path, splits)],
                    [vector_store_path |-> PathStr(vector_store_path),
                     document_count |-> Len(documents),
                     chunk_count |-> Len(splits),
                     status |-> "success"])

\* doc.page_content[:200] + "..." if len(doc.page_content) > 200
\* else doc.page_content: the length of the snippet
SnippetLength(len) == IF len > SnippetLen THEN SnippetLen + 3 ELSE len

Source(doc) == [page |-> doc.page, doc |-> doc.doc, start |-> doc.start,
                content_len |-> SnippetLength(doc.len)]

\* sources built from every source document
SourcesUncapped(source_docs) ==
    [i \in 1..Len(source_docs) |-> Source(source_docs[i])]

\* the sources built from result["source_documents"][:3]
Sources(source_docs) ==
    [i \in 1..(IF Len(source_docs) < MaxSources THEN Len(source_docs) ELSE MaxSources)
        |-> Source(source_docs[i])]

NoKnowledgeBaseMsg(company_name) ==
    <<Txt("No knowledge base found"), Txt(" for company: "), company_name,
      Txt(". Please upload a PDF document first.")>>

\* an answer_question that opens the Chroma directory without looking
\* whether it exists, so that Chroma makes it
AnswerOpensStore(st, company_name, question, fault) ==
    LET vector_store_path == get_vector_store_path(company_name)
        opened == [st EXCEPT !.stores = ChromaOpen(@, vector_store_path)]
    IN  IF fault = "llm"
        THEN Raise(opened, <<Txt("Error answering question: ")>> \o ErrText(fault))
        ELSE Return(opened,
                [answer |-> "generated",
                 sources |-> Sources(Retrieve(opened.stores[vector_store_path],
                                              question)),
                 confidence_score |-> ConfidenceTenths])

\* an answer_question whose confidence follows the number of sources
AnswerConfidenceBySources(st, company_name, question, fault) ==
    LET vector_store_path == get_vector_store_path(company_name)
    IN  IF ~DirExists(st.stores, vector_store_path)
        THEN Raise(st, <<Txt("Error answering question: ")>>
                       \o NoKnowledgeBaseMsg(company_name))
        ELSE IF fault = "llm"
        THEN Raise(st, <<Txt("Error answering question: ")>> \o ErrText(fault))
        ELSE LET sources == Sources(Retrieve(st.stores[vector_store_path], question))
             IN  Return(st,
                     [answer |-> "generated",
                      sources |-> sources,
                      confidence_score |-> 5 + Len(sources)])

\* KnowledgeBaseService.answer_question
\* fault: "llm" (the chain fails)
answer_question(st, company_name, question, fault) ==
    LET vector_store_path == get_vector_store_path(company_name)
    IN  IF ~DirExists(st.stores, vector_store_path)
        THEN Raise(st, <<Txt("Error answering question: ")>>
                       \o NoKnowledgeBaseMsg(company_name))
        ELSE IF fault = "llm"
        THEN Raise(st, <<Txt("Error answering question: ")>> \o ErrText(fault))
        ELSE Return(st,
                [answer |-> "generated",
                 sources |-> Sources(Retrieve(st.stores[vector_store_path], question)),
                 confidence_score |-> ConfidenceTenths])

\* a delete_company_knowledge_base that returns True also when there is no
\* directory
KbDeleteAlwaysTrue(st, company_name, fault) ==
    LET vector_store_path == get_vector_store_path(company_name)
    IN  IF DirExists(st.stores, vector_store_path) /\ fault = "rmtree"
        THEN Raise(st, <<Txt("Error deleting vector store: ")>> \o ErrText(fault))
        ELSE Return([st EXCEPT !.stores = rmtree(st.stores, vector_store_path)],
                    TRUE)

\* KnowledgeBaseService.delete_company_knowledge_base;  fault: "rmtree"
kb_delete_company_knowledge_base(st, company_name, fault) ==
    LET vector_store_path == get_vector_store_path(company_name)
    IN  IF DirExists(st.stores, vector_store_path)
        THEN IF fault = "rmtree"
             THEN Raise(st, <<Txt("Error deleting vector store: ")>> \o ErrText(fault))
             ELSE Return([st EXCEPT !.stores = rmtree(st.stores, vector_store_path)],
                         TRUE)
        ELSE Return(st, FALSE)

\* KnowledgeBaseService.check_company_knowledge_base_exists
check_company_knowledge_base_exists(st, company_name) ==
    DirExists(st.stores, get_vector_store_path(company_name))

----------------------------------------------------------------------------
(* CompanyDocumentService *)

\* os.path.exists(path string) for a saved file and for a store directory
FileExists(st, path_str) == PathOf(path_str) \in DOMAIN st.files

StoreExists(st, path_str) == PathOf(path_str) \in DOMAIN st.stores

WriteFile(fs, path, content) ==
    [q \in (DOMAIN fs) \cup {path} |-> IF q = path THEN content ELSE fs[q]]

\* a save_uploaded_file that keeps a file that is already there
SaveKeepsExisting(st, file_content, company_name, file_name, fault) ==
    LET safe_company_name == SafeCompanyName(company_name)
        company_dir == PathJoin(uploads_dir, safe_company_name)
        file_path == PathJoin(company_dir, file_name)
    IN  IF fault = "mkdir"
        THEN Raise(st, <<Txt("Error saving file: ")>> \o ErrText(fault))
        ELSE IF file_path \in DOMAIN st.files
        THEN Return(st, PathStr(file_path))
        ELSE Return([st EXCEPT !.files = WriteFile(st.files, file_path, file_content)],
                    PathStr(file_path))

\* a save_uploaded_file whose handler re-raises the exception it caught
SaveReraises(st, file_content, company_name, file_name, fault) ==
    LET safe_company_name == SafeCompanyName(company_name)
        company_dir == PathJoin(uploads_dir, safe_company_name)
        file_path == PathJoin(company_dir, file_name)
    IN  IF fault = "mkdir"
        THEN Raise(st, ErrText(fault))
        ELSE Return([st EXCEPT !.files = WriteFile(st.files, file_path, file_content)],
                    PathStr(file_path))

\* CompanyDocumentService.save_uploaded_file
\* fault: "mkdir" (the directory or the file cannot be created)
save_uploaded_file(st, file_content, company_name, file_name, fault) ==
    LET safe_company_name == SafeCompanyName(company_name)
        company_dir == PathJoin(uploads_dir, safe_company_name)
        file_path == PathJoin(company_dir, file_name)
    IN  IF fault = "mkdir"
        THEN Raise(st, <<Txt("Error saving file: ")>> \o ErrText(fault))
        ELSE Return([st EXCEPT !.files = WriteFile(st.files, file_path, file_content)],
                    PathStr(file_path))

\* a create_document_record that replaces the row of the same company and
\* file name
CreateOrReplaceRecord(st, id, company_name, file_name, file_path, vector_store_path, fault) ==
    IF fault = "commit"
    THEN Raise(st, <<Txt("Error creating document record: ")>> \o ErrText(fault))
    ELSE LET kept == {i \in DOMAIN st.records :
                         ~(/\ st.records[i].company_name = company_name
                           /\ st.records[i].file_name = file_name)}
         IN  Return([st EXCEPT !.records =
                        [i \in kept \cup {id} |->
                            IF i = id
                            THEN [company_name |-> company_name,
                                  file_name |-> file_name,
                                  file_path |-> file_path,
                                  vector_store_path |-> vector_store_path]
                            ELSE st.records[i]]],
                    id)

\* CompanyDocumentService.create_document_record;  fault: "commit"
\* id is the primary key the database gives the new row
\* a create_document_record that leaves the vector_store_path of the row empty
CreateRecordWithoutStorePath(st, id, company_name, file_name, file_path, vector_store_path, fault) ==
    IF fault = "commit"
    THEN Raise(st, <<Txt("Error creating document record: ")>> \o ErrText(fault))
    ELSE Return([st EXCEPT !.records =
                    [i \in (DOMAIN st.records) \cup {id} |->
                        IF i = id
                        THEN [company_name |-> company_name,
                              file_name |-> file_name,
                              file_path |-> file_path,
                              vector_store_path |-> <<>>]
                        ELSE st.records[i]]],
                id)

create_document_record(st, id, company_name, file_name, file_path, vector_store_path, fault) ==
    IF fault = "commit"
    THEN Raise(st, <<Txt("Error creating document record: ")>> \o ErrText(fault))
    ELSE Return([st EXCEPT !.records =
                    [i \in (DOMAIN st.records) \cup {id} |->
                        IF i = id
                        THEN [company_name |-> company_name,
                              file_name |-> file_name,
                              file_path |-> file_path,
                              vector_store_path |-> vector_store_path]
                        ELSE st.records[i]]],
                id)

\* a get_documents_by_company that compares normalised names
GetDocumentsNormalized(st, company_name, fault) ==
    IF fault = "query"
    THEN Raise(st, <<Txt("Error getting documents: ")>> \o ErrText(fault))
    ELSE Return(st, {i \in DOMAIN st.records :
                        SafeCompanyName(st.records[i].company_name)
                            = SafeCompanyName(company_name)})

\* CompanyDocumentService.get_documents_by_company;  fault: "query"
\* the rows are given as the set of their ids
get_documents_by_company(st, company_name, fault) ==
    IF fault = "query"
    THEN Raise(st, <<Txt("Error getting documents: ")>> \o ErrText(fault))
    ELSE Return(st, {i \in DOMAIN st.records :
                        st.records[i].company_name = company_name})

\* CompanyDocumentService.get_document_by_id;  fault: "query"
get_document_by_id(st, document_id, fault) ==
    IF fault = "query"
    THEN Raise(st, <<Txt("Error getting document: ")>> \o ErrText(fault))
    ELSE Return(st, IF document_id \in DOMAIN st.records
                    THEN Some(document_id) ELSE None)

\* a delete_document that leaves the vector store directory
\* a delete_document that removes the store directory before the file
DeleteStoreFirst(st, document_id, fault) ==
    LET got == get_document_by_id(st, document_id, fault)
        document == st.records[document_id]
        file == PathOf(document.file_path)
        has_file == FileExists(st, document.file_path)
        has_store == /\ document.vector_store_path # <<>>
                     /\ StoreExists(st, document.vector_store_path)
        files1 == IF has_file THEN Restrict(st.files, (DOMAIN st.files) \ {file})
                  ELSE st.files
        stores1 == IF has_store
                   THEN rmtree(st.stores, PathOf(document.vector_store_path))
                   ELSE st.stores
    IN  IF got.raised
        THEN Raise(st, <<Txt("Error deleting document: ")>> \o got.msg)
        ELSE IF ~got.ret.found
        THEN Return(st, FALSE)
        ELSE IF has_store /\ fault = "rmtree"
        THEN Raise(st, <<Txt("Error deleting document: ")>> \o ErrText(fault))
        ELSE IF has_file /\ fault = "remove"
        THEN Raise([st EXCEPT !.stores = stores1],
                   <<Txt("Error deleting document: ")>> \o ErrText(fault))
        ELSE IF fault = "commit"
        THEN Raise([st EXCEPT !.files = files1, !.stores = stores1],
                   <<Txt("Error deleting document: ")>> \o ErrText(fault))
        ELSE Return([st EXCEPT
                        !.files = files1,
                        !.stores = stores1,
                        !.records = Restrict(@, (DOMAIN @) \ {document_id})],
                    TRUE)

\* a delete_document that removes the store directory only when no other row
\* names it
DeleteStoreWhenUnused(st, document_id, fault) ==
    LET got == get_document_by_id(st, document_id, fault)
        document == st.records[document_id]
        file == PathOf(document.file_path)
        has_file == FileExists(st, document.file_path)
        has_store == /\ document.vector_store_path # <<>>
                     /\ StoreExists(st, document.vector_store_path)
                     /\ \A i \in (DOMAIN st.records) \ {document_id} :
                           st.records[i].vector_store_path #
                              document.vector_store_path
        files1 == IF has_file THEN Restrict(st.files, (DOMAIN st.files) \ {file})
                  ELSE st.files
        stores1 == IF has_store
                   THEN rmtree(st.stores, PathOf(document.vector_store_path))
                   ELSE st.stores
    IN  IF got.raised
        THEN Raise(st, <<Txt("Error deleting document: ")>> \o got.msg)
        ELSE IF ~got.ret.found
        THEN Return(st, FALSE)
        ELSE IF has_file /\ fault = "remove"
        THEN Raise(st, <<Txt("Error deleting document: ")>> \o ErrText(fault))
        ELSE IF has_store /\ fault = "rmtree"
        THEN Raise([st EXCEPT !.files = files1],
                   <<Txt("Error deleting document: ")>> \o ErrText(fault))
        ELSE IF fault = "commit"
        THEN Raise([st EXCEPT !.files = files1, !.stores = stores1],
                   <<Txt("Error deleting document: ")>> \o ErrText(fault))
        ELSE Return([st EXCEPT
                        !.files = files1,
                        !.stores = stores1,
                        !.records = Restrict(@, (DOMAIN @) \ {document_id})],
                    TRUE)

DeleteKeepsStore(st, document_id, fault) ==
    LET got == get_document_by_id(st, document_id, fault)
        document == st.records[document_id]
        file == PathOf(document.file_path)
    IN  IF got.raised
        THEN Raise(st, <<Txt("Error deleting document: ")>> \o got.msg)
        ELSE IF ~got.ret.found
        THEN Return(st, FALSE)
        ELSE Return([st EXCEPT
                        !.files = Restrict(@, (DOMAIN @) \ {file}),
                        !.records = Restrict(@, (DOMAIN @) \ {document_id})],
                    TRUE)

\* CompanyDocumentService.delete_document
\* faults: "query", "remove", "rmtree", "commit"
delete_document(st, document_id, fault) ==
    LET got == get_document_by_id(st, document_id, fault)
        document == st.records[document_id]
        file == PathOf(document.file_path)
        has_file == FileExists(st, document.file_path)
        has_store == /\ document.vector_store_path # <<>>
                     /\ StoreExists(st, document.vector_store_path)
        files1 == IF has_file THEN Restrict(st.files, (DOMAIN st.files) \ {file})
                  ELSE st.files
        stores1 == IF has_store
                   THEN rmtree(st.stores, PathOf(document.vector_store_path))
                   ELSE st.stores
    IN  IF got.raised
        THEN Raise(st, <<Txt("Error deleting document: ")>> \o got.msg)
        ELSE IF ~got.ret.found
        THEN Return(st, FALSE)
        ELSE IF has_file /\ fault = "remove"
        THEN Raise(st, <<Txt("Error deleting document: ")>> \o ErrText(fault))
        ELSE IF has_store /\ fault = "rmtree"
        THEN Raise([st EXCEPT !.files = files1],
                   <<Txt("Error deleting document: ")>> \o ErrText(fault))
        ELSE IF fault = "commit"
        THEN Raise([st EXCEPT !.files = files1, !.stores = stores1],
                   <<Txt("Error deleting document: ")>> \o ErrText(fault))
        ELSE Return([st EXCEPT
                        !.files = files1,
                        !.stores = stores1,
                        !.records = Restrict(@, (DOMAIN @) \ {document_id})],
                    TRUE)

----------------------------------------------------------------------------
(* Routes.  The body of a route's try block ends in one of three ways: it  *)
(* returns (kind "ok"), it raises an HTTPException (kind "http") or a      *)
(* service call raises an Exception (kind "exc").  calls is the set of     *)
(* service methods the body called.                                        *)

Ok(st, value, calls) ==
    [st |-> st, kind |-> "ok", status |-> 200, msg |-> <<>>, ret |-> value,
     calls |-> calls]

Http(st, status, detail, calls) ==
    [st |-> st, kind |-> "http", status |-> status, msg |-> detail, ret |-> <<>>,
     calls |-> calls]

Exc(st, msg, calls) ==
    [st |-> st, kind |-> "exc", status |-> 0, msg |-> msg, ret |-> <<>>,
     calls |-> calls]

\* except clauses that turn an HTTPException into 500 too
RespondAll500(out, reraise) ==
    IF out.kind = "ok" THEN [status |-> 200, detail |-> <<>>]
    ELSE [status |-> 500, detail |-> out.msg]

\* The except clauses of a route:
\*     except HTTPException: raise            (only when reraise)
\*     except Exception as e: raise HTTPException(status_code=500, detail=str(e))
Respond(out, reraise) ==
    IF out.kind = "ok" THEN [status |-> 200, detail |-> <<>>]
    ELSE IF out.kind = "http" /\ reraise
    THEN [status |-> out.status, detail |-> out.msg]
    ELSE IF out.kind = "http"
    THEN [status |-> 500, detail |-> <<Txt("HTTPException: ")>> \o out.msg]
    ELSE [status |-> 500, detail |-> out.msg]

PdfSuffix == <<".", "p", "d", "f">>

\* upload steps that put back the files and directories they found when the
\* store cannot be built
UploadStepsWithUndo(st, company_name, filename, file_content, id, fault) ==
    LET saved == save_uploaded_file(st, file_content, company_name, filename, fault)
        info == upload_and_process_pdf(saved.st, saved.ret, company_name, fault)
        rec == create_document_record(info.st, id, company_name, filename,
                                      saved.ret, info.ret.vector_store_path, fault)
    IN  IF saved.raised
        THEN Exc(saved.st, saved.msg, {"save_uploaded_file"})
        ELSE IF info.raised
        THEN Exc(st, info.msg, {"save_uploaded_file", "upload_and_process_pdf"})
        ELSE IF rec.raised
        THEN Exc(rec.st, rec.msg, {"save_uploaded_file", "upload_and_process_pdf",
                                   "create_document_record"})
        ELSE Ok(rec.st, rec.ret, {"save_uploaded_file", "upload_and_process_pdf",
                                  "create_document_record"})

\* upload_pdf after its two checks: save the file, build the store, add the row
UploadSteps(st, company_name, filename, file_content, id, fault) ==
    LET saved == save_uploaded_file(st, file_content, company_name, filename, fault)
        info == upload_and_process_pdf(saved.st, saved.ret, company_name, fault)
        rec == create_document_record(info.st, id, company_name, filename,
                                      saved.ret, info.ret.vector_store_path, fault)
    IN  IF saved.raised
        THEN Exc(saved.st, saved.msg, {"save_uploaded_file"})
        ELSE IF info.raised
        THEN Exc(info.st, info.msg, {"save_uploaded_file", "upload_and_process_pdf"})
        ELSE IF rec.raised
        THEN Exc(rec.st, rec.msg, {"save_uploaded_file", "upload_and_process_pdf",
                                   "create_document_record"})
        ELSE Ok(rec.st, rec.ret, {"save_uploaded_file", "upload_and_process_pdf",
                                  "create_document_record"})

\* an upload_pdf that saves the file before its two checks
UploadSaveFirst(st, company_name, filename, file_content, id, fault) ==
    LET saved == save_uploaded_file(st, file_content, company_name, filename, fault)
    IN  IF saved.raised
        THEN Exc(saved.st, saved.msg, {"save_uploaded_file"})
        ELSE IF filename = <<>> \/ ~EndsWith(Lower(filename), PdfSuffix)
        THEN Http(saved.st, 400, <<Txt("File must be a PDF (.pdf)")>>,
                  {"save_uploaded_file"})
        ELSE IF ~StartsWith(file_content.head, PdfMagic)
        THEN Http(saved.st, 400, <<Txt("Invalid PDF file format")>>,
                  {"save_uploaded_file"})
        ELSE UploadSteps(st, company_name, filename, file_content, id, fault)

\* upload_pdf: the try block
upload_pdf(st, company_name, filename, file_content, id, fault) ==
    IF filename = <<>> \/ ~EndsWith(Lower(filename), PdfSuffix)
    THEN Http(st, 400, <<Txt("File must be a PDF (.pdf)")>>, {})
    ELSE IF ~StartsWith(file_content.head, PdfMagic)
    THEN Http(st, 400, <<Txt("Invalid PDF file format")>>, {})
    ELSE UploadSteps(st, company_name, filename, file_content, id, fault)

\* an ask_question without the check of lines 89-95
AskWithoutCheck(st, company_name, question, fault) ==
    LET result == answer_question(st, company_name, question, fault)
    IN  IF result.raised
        THEN Exc(result.st, result.msg, {"answer_question"})
        ELSE Ok(result.st, result.ret, {"answer_question"})

\* ask_question: the try block
ask_question(st, company_name, question, fault) ==
    IF ~check_company_knowledge_base_exists(st, company_name)
    THEN Http(st, 404,
              <<Txt("No knowledge base found"), Txt(" for company: "), company_name,
                Txt(". Please upload a PDF first.")>>,
              {"check_company_knowledge_base_exists"})
    ELSE
    LET result == answer_question(st, company_name, question, fault)
    IN  IF result.raised
        THEN Exc(result.st, result.msg,
                 {"check_company_knowledge_base_exists", "answer_question"})
        ELSE Ok(result.st,
                [answer |-> result.ret.answer,
                 company_name |-> company_name,
                 sources |-> result.ret.sources,
                 confidence_score |-> result.ret.confidence_score],
                {"check_company_knowledge_base_exists", "answer_question"})

\* get_company_documents: the try block
get_company_documents(st, company_name, fault) ==
    LET documents == get_documents_by_company(st, company_name, fault)
    IN  IF documents.raised
        THEN Exc(documents.st, documents.msg, {"get_documents_by_company"})
        ELSE Ok(documents.st, documents.ret, {"get_documents_by_company"})

\* get_document: the try block
get_document(st, document_id, fault) ==
    LET document == get_document_by_id(st, document_id, fault)
    IN  IF document.raised
        THEN Exc(document.st, document.msg, {"get_document_by_id"})
        ELSE IF ~document.ret.found
        THEN [Http(document.st, 404, <<Txt("Document not found")>>,
                   {"get_document_by_id"}) EXCEPT !.ret = document.ret]
        ELSE Ok(document.st, document.ret, {"get_document_by_id"})

\* a delete_document route that ignores the False of the service
RouteDeleteIgnoresResult(st, document_id, fault) ==
    LET success == delete_document(st, document_id, fault)
    IN  IF success.raised
        THEN Exc(success.st, success.msg, {"delete_document"})
        ELSE Ok(success.st, success.ret, {"delete_document"})

\* delete_document (the route): the try block
route_delete_document(st, document_id, fault) ==
    LET success == delete_document(st, document_id, fault)
    IN  IF success.raised
        THEN Exc(success.st, success.msg, {"delete_document"})
        ELSE IF ~success.ret
        THEN [Http(success.st, 404, <<Txt("Document not found")>>,
                   {"delete_document"}) EXCEPT !.ret = success.ret]
        ELSE Ok(success.st, success.ret, {"delete_document"})

\* the loop  for document in documents: delete_document(db, document.id)
\* order: the documents in the order the query gave them; failAt: the
\* iteration during which the external call named by fault fails
RECURSIVE DeleteEach(_, _, _, _, _)
DeleteEach(st, order, k, failAt, fault) ==
    IF k > Len(order) THEN Return(st, TRUE)
    ELSE LET r == delete_document(st, order[k], IF k = failAt THEN fault ELSE "none")
         IN  IF r.raised THEN r
             ELSE DeleteEach(r.st, order, k + 1, failAt, fault)

\* a delete_company_knowledge_base route that removes only the store
DeleteCompanySkipsRecords(st, company_name, order, failAt, fault) ==
    LET gone == kb_delete_company_knowledge_base(st, company_name, "none")
    IN  Ok(gone.st, company_name, {"delete_company_knowledge_base"})

\* delete_company_knowledge_base (the route): the try block
\* failAt = 0: the fault hits the query, failAt = Len(order) + 1: the final
\* removal of the store
route_delete_company_knowledge_base(st, company_name, order, failAt, fault) ==
    LET documents == get_documents_by_company(st, company_name,
                         IF failAt = 0 THEN fault ELSE "none")
        each == DeleteEach(documents.st, order, 1, failAt, fault)
        gone == kb_delete_company_knowledge_base(each.st, company_name,
                    IF failAt = Len(order) + 1 THEN fault ELSE "none")
    IN  IF documents.raised
        THEN Exc(documents.st, documents.msg, {"get_documents_by_company"})
        ELSE IF each.raised
        THEN Exc(each.st, each.msg, {"get_documents_by_company", "delete_document"})
        ELSE IF gone.raised
        THEN Exc(gone.st, gone.msg,
                 {"get_documents_by_company", "delete_company_knowledge_base"}
                    \cup (IF order = <<>> THEN {} ELSE {"delete_document"}))
        ELSE Ok(gone.st, company_name,
                {"get_documents_by_company", "delete_company_knowledge_base"}
                    \cup (IF order = <<>> THEN {} ELSE {"delete_document"}))

----------------------------------------------------------------------------
(* State machine: one action per completed request or direct service call *)

Req(company, file_name, content, id, question) ==
    [company |-> company, file_name |-> file_name, content |-> content,
     id |-> id, question |-> question]

\* the content of a request whose body the handler did not read
NoContent == [head |-> <<>>, doc |-> "-", pages |-> <<>>]

NoRow == [found |-> FALSE, company_name |-> <<>>, file_name |-> <<>>,
          file_path |-> <<>>, vector_store_path |-> <<>>]

\* the row a table holds under an id
RowOf(table, id) ==
    IF id \in DOMAIN table
    THEN [found |-> TRUE,
          company_name |-> table[id].company_name,
          file_name |-> table[id].file_name,
          file_path |-> table[id].file_path,
          vector_store_path |-> table[id].vector_store_path]
    ELSE NoRow

Cur == State(files, stores, records)

\* What a call leaves in last: the request (req), the external call that
\* failed during it (fault), whether the company's store directory existed
\* (existed) and the table (before) before it, how the try block ended
\* (kind, exc, http: the status of the HTTPException raised), the response
\* the client gets (status, detail; status 0 for a direct service call), the
\* value the last service call returned (ret), the service methods called
\* (calls) and whether the call changed a file, a store or a row (changed).
Observed(op, req, fault, out, resp) ==
    [op |-> op, req |-> req, fault |-> fault,
     existed |-> DirExists(stores, get_vector_store_path(req.company)),
     before |-> records,
     kind |-> out.kind, exc |-> out.msg, http |-> out.status,
     status |-> resp.status, detail |-> resp.detail,
     ret |-> out.ret, calls |-> out.calls,
     changed |-> out.st # Cur]

Served(op, req, fault, out, reraise) ==
    Observed(op, req, fault, out, Respond(out, reraise))

Called(op, req, fault, r) ==
    Observed(op, req, fault,
             [st |-> r.st, kind |-> IF r.raised THEN "exc" ELSE "ok",
              status |-> 0, msg |-> r.msg, ret |-> r.ret, calls |-> {op}],
             [status |-> 0, detail |-> <<>>])

Become(st) ==
    /\ files' = st.files
    /\ stores' = st.stores
    /\ records' = st.records

\* no call of get_assistant_response has been made
NoChat ==
    [pc |-> "idle", flag |-> <<>>, sent |-> <<>>, left |-> 0,
     outcome |-> "none", value |-> <<>>]

\* an execution of upload_and_process_pdf that has not started
IdleWorker ==
    [pc |-> "idle", company |-> <<>>, content |-> NoContent,
     opened |-> FALSE, overlapped |-> FALSE]

NoWorkers == [p \in {1, 2} |-> IdleWorker]

\* last while no call has completed whose outcome is still to be delivered
NoCall ==
    [op |-> "none", req |-> Req(<<>>, <<>>, NoContent, 0, ""),
     fault |-> "none", existed |-> TRUE, before |-> EmptyFn,
     kind |-> "ok", exc |-> <<>>, http |-> 0, status |-> 0, detail |-> <<>>,
     ret |-> <<>>, calls |-> {}, changed |-> FALSE]

\* The handlers run one at a time (each route is a coroutine that never
\* awaits between its first and its last service call): a call starts when
\* the outcome of the one before it has been delivered.
Idle == last.op = "none"

\* an external call fails only while the run has failures left
MayFail(fault) == fault # "none" => faults < MaxFaults

\* a failure that was asked for is one that happened
Inject(fault, raised) ==
    /\ fault # "none" => raised
    /\ faults' = IF fault = "none" THEN faults ELSE faults + 1

Perms(S) ==
    {p \in [1..Cardinality(S) -> S] : \A i, j \in 1..Cardinality(S) :
                                          p[i] = p[j] => i = j}

UploadFaults == {"none", "mkdir", "embed", "commit"}

AnswerFaults == {"none", "llm"}

QueryFaults == {"none", "query"}

DeleteFaults == {"none", "query", "remove", "rmtree", "commit"}

Init ==
    /\ faults = 0
    /\ files = EmptyFn
    /\ stores = [p \in {base_dir} |-> {}]
    /\ records = EmptyFn
    /\ last = NoCall
    /\ n1 = <<>>
    /\ n2 = <<>>
    /\ workers = NoWorkers
    /\ chat = NoChat

\* POST /knowledge-base/upload.  The body is read only after the file name
\* passed its check; id is the key the database has for a new row.
UploadPdf ==
    /\ Idle
    /\ \E company_name \in Companies, filename \in FileNames,
          fault \in UploadFaults :
       /\ MayFail(fault)
       /\ \E file_content \in
                (IF filename = ValidName THEN Contents ELSE {NoContent}) :
          \E id \in (IF Ids \ DOMAIN records = {} THEN {0}
                     ELSE Ids \ DOMAIN records) :
          LET out == upload_pdf(Cur, company_name, filename, file_content,
                                id, fault)
          IN  /\ out.kind = "ok" => id # 0
              /\ Inject(fault, out.kind = "exc")
              /\ Become(out.st)
              /\ last' = Served("upload_pdf",
                                Req(company_name, filename, file_content,
                                    IF out.kind = "ok" THEN id ELSE 0, ""),
                                fault, out, TRUE)
              /\ UNCHANGED <<chat, n1, n2, workers>>

\* POST /knowledge-base/question
AskQuestion ==
    /\ Idle
    /\ \E company_name \in Companies, question \in Questions,
          fault \in AnswerFaults :
       LET out == ask_question(Cur, company_name, question, fault)
       IN  /\ MayFail(fault)
           /\ Inject(fault, out.kind = "exc")
           /\ Become(out.st)
           /\ last' = Served("ask_question",
                             Req(company_name, <<>>, NoContent, 0, question),
                             fault, out, TRUE)
           /\ UNCHANGED <<chat, n1, n2, workers>>

\* GET /knowledge-base/documents/{company_name}
GetCompanyDocuments ==
    /\ Idle
    /\ \E company_name \in Companies, fault \in QueryFaults :
       LET out == get_company_documents(Cur, company_name, fault)
       IN  /\ MayFail(fault)
           /\ Inject(fault, out.kind = "exc")
           /\ Become(out.st)
           /\ last' = Served("get_company_documents",
                             Req(company_name, <<>>, NoContent, 0, ""),
                             fault, out, FALSE)
           /\ UNCHANGED <<chat, n1, n2, workers>>

\* GET /knowledge-base/document/{document_id}
GetDocument ==
    /\ Idle
    /\ \E document_id \in RequestIds, fault \in QueryFaults :
       LET out == get_document(Cur, document_id, fault)
       IN  /\ MayFail(fault)
           /\ Inject(fault, out.kind = "exc")
           /\ Become(out.st)
           /\ last' = Served("get_document",
                             Req(<<>>, <<>>, NoContent, document_id, ""),
                             fault, out, TRUE)
           /\ UNCHANGED <<chat, n1, n2, workers>>

\* DELETE /knowledge-base/document/{document_id}
DeleteDocument ==
    /\ Idle
    /\ \E document_id \in RequestIds, fault \in DeleteFaults :
       LET out == route_delete_document(Cur, document_id, fault)
       IN  /\ MayFail(fault)
           /\ Inject(fault, out.kind = "exc")
           /\ Become(out.st)
           /\ last' = Served("delete_document",
                             Req(<<>>, <<>>, NoContent, document_id, ""),
                             fault, out, TRUE)
           /\ UNCHANGED <<chat, n1, n2, workers>>

\* DELETE /knowledge-base/company/{company_name}
\* order: the order in which the query gives the company's rows
DeleteCompanyKnowledgeBase ==
    /\ Idle
    /\ \E company_name \in Companies, fault \in DeleteFaults :
       /\ MayFail(fault)
       /\ \E order \in Perms(get_documents_by_company(Cur, company_name,
                                                      "none").ret) :
          \E failAt \in (IF fault = "none" THEN {0} ELSE 0..(Len(order) + 1)) :
          LET out == route_delete_company_knowledge_base(Cur, company_name,
                                                         order, failAt, fault)
          IN  /\ Inject(fault, out.kind = "exc")
              /\ Become(out.st)
              /\ last' = Served("delete_company_knowledge_base",
                                Req(company_name, <<>>, NoContent, 0, ""),
                                fault, out, FALSE)
              /\ UNCHANGED <<chat, n1, n2, workers>>

\* KnowledgeBaseService.answer_question called directly
CallAnswerQuestion ==
    /\ Idle
    /\ \E company_name \in Companies, question \in Questions,
          fault \in AnswerFaults :
       LET r == answer_question(Cur, company_name, question, fault)
       IN  /\ MayFail(fault)
           /\ Inject(fault, r.raised)
           /\ Become(r.st)
           /\ last' = Called("answer_question",
                             Req(company_name, <<>>, NoContent, 0, question),
                             fault, r)
           /\ UNCHANGED <<chat, n1, n2, workers>>

\* the outcome of the last call reaches its caller
Deliver ==
    /\ ~Idle
    /\ last' = NoCall
    /\ UNCHANGED <<faults, files, stores, records, chat, n1, n2, workers>>

Next ==
    \/ Deliver
    \/ UploadPdf
    \/ AskQuestion
    \/ GetCompanyDocuments
    \/ GetDocument
    \/ DeleteDocument
    \/ DeleteCompanyKnowledgeBase
    \/ CallAnswerQuestion

Spec == Init /\ [][Next]_vars

----------------------------------------------------------------------------
(* The path function on arbitrary names *)

NameChars == {"a", " ", "/", "_", "."}

Names == UNION {[1..n -> NameChars] : n \in 0..MaxNameLen}

InitNames ==
    /\ faults = 0
    /\ files = EmptyFn
    /\ stores = [p \in {base_dir} |-> {}]
    /\ records = EmptyFn
    /\ last = [op |-> "init", path1 |-> <<>>, path2 |-> <<>>]
    /\ n1 \in Names
    /\ n2 \in Names
    /\ workers = NoWorkers
    /\ chat = NoChat

\* get_vector_store_path applied to both names
ApplyPath ==
    /\ last' = [op |-> "get_vector_store_path",
                path1 |-> get_vector_store_path(n1),
                path2 |-> get_vector_store_path(n2)]
    /\ UNCHANGED <<faults, files, stores, records, chat, n1, n2, workers>>

\* the directory into which save_uploaded_file writes the files of a company
\* (company_document_service.py:36-37)
company_dir(company_name) ==
    PathJoin(uploads_dir, Replace(Replace(company_name, " ", "_"), "/", "_"))

\* both services name the directory of the first name
ApplyDirs ==
    /\ last' = [op |-> "company_dir",
                path1 |-> company_dir(n1),
                path2 |-> get_vector_store_path(n1)]
    /\ UNCHANGED <<faults, files, stores, records, chat, n1, n2, workers>>

NextNames ==
    \/ ApplyPath
    \/ ApplyDirs

SpecNames == InitNames /\ [][NextNames]_vars

----------------------------------------------------------------------------
(* OpenAIService (api-old): the client of the external chat service.  One  *)
(* call of get_assistant_response sends one HTTP request at a time; every  *)
(* request ends, with a response or with an error, because it carries      *)
(* timeout=30.  The DNS lookup and the ping of the direct path send no     *)
(* HTTP request and swallow their exceptions; they are left out.           *)

\* Retry(status_forcelist=[429, 500, 502, 503, 504])
status_forcelist == {429, 500, 502, 503, 504}

\* the statuses the chat service answers with
Statuses == {200, 404} \cup status_forcelist

\* values of the environment variable USE_DIRECT_CONNECTION; <<>> stands for
\* an unset variable
FlagValues ==
    { <<>>, <<"t", "r", "u", "e">>, <<"T", "R", "U", "E">>,
      <<"f", "a", "l", "s", "e">>, <<"1">> }

\* os.getenv("USE_DIRECT_CONNECTION", "false").lower() == "true"
use_direct_connection(flag) ==
    Lower(IF flag = <<>> THEN <<"f", "a", "l", "s", "e">> ELSE flag)
        = <<"t", "r", "u", "e">>

\* response bodies: a JSON object with the key "messages", a JSON object
\* without it, JSON that is no container (a number, null), and no JSON
Bodies ==
    { [json |-> TRUE, container |-> TRUE, keys |-> {"messages", "session_id"}],
      [json |-> TRUE, container |-> TRUE, keys |-> {"reply"}],
      [json |-> TRUE, container |-> FALSE, keys |-> {}],
      [json |-> FALSE, container |-> FALSE, keys |-> {}] }

NoBody == [json |-> FALSE, container |-> FALSE, keys |-> {}]

\* how one HTTP request ends: no connection (status 0), or a response
Outcomes ==
    {[status |-> 0, body |-> NoBody]}
        \cup {[status |-> 200, body |-> b] : b \in Bodies}
        \cup {[status |-> c, body |-> NoBody] : c \in Statuses \ {200}}

\* direct_requests.post(self.url, json=payload, timeout=30, headers=...,
\*                      verify=False, proxies=self.proxies)
DirectRequest(payload) ==
    [via |-> "direct", json |-> payload, timeout |-> 30, verify |-> FALSE]

\* a session request that leaves verify at the default of requests
SessionRequestVerified(payload) ==
    [via |-> "session", json |-> payload, timeout |-> 30, verify |-> TRUE]

\* self.session.post(self.url, json=payload, timeout=30, verify=False)
SessionRequest(payload) ==
    [via |-> "session", json |-> payload, timeout |-> 30, verify |-> FALSE]

\* the payload of a call with the default language
Payload == [message |-> "hello", session_id |-> "s", language |-> "fa"]

\* response.raise_for_status(); result = response.json();
\* return result["messages"] if "messages" in result else result
Handle(o) ==
    IF o.status = 0 THEN [raised |-> TRUE, error |-> "ConnectionError"]
    ELSE IF o.status >= 400 THEN [raised |-> TRUE, error |-> "HTTPError"]
    ELSE IF ~o.body.json THEN [raised |-> TRUE, error |-> "JSONDecodeError"]
    ELSE IF ~o.body.container THEN [raised |-> TRUE, error |-> "TypeError"]
    ELSE IF "messages" \in o.body.keys
    THEN [raised |-> FALSE, part |-> "messages", of |-> o.body]
    ELSE [raised |-> FALSE, part |-> "all", of |-> o.body]

\* a retry condition that takes every error status
RetriesAnyError(o, left, again) ==
    left > 0 /\ (o.status = 0 \/ o.status >= 400)

\* HTTPAdapter(max_retries=Retry(total=3, status_forcelist=...,
\* raise_on_status=False)): whether the adapter sends the request again
\* after outcome o with left retries left.  A failed connection is retried.
\* A status of the list is retried when urllib3 counts the method among its
\* allowed_methods, which its default does not do for POST: again says
\* whether it does.
Retries(o, left, again) ==
    left > 0 /\ (o.status = 0 \/ (o.status \in status_forcelist /\ again))

\* a direct attempt whose failure is raised to the caller
DirectFailureRaised(c, o) ==
    LET h == Handle(o)
        sent == Append(c.sent, [request |-> DirectRequest(Payload), outcome |-> o])
    IN  IF h.raised
        THEN [c EXCEPT !.pc = "done", !.sent = sent, !.outcome = "raised",
                       !.value = h]
        ELSE [c EXCEPT !.pc = "done", !.sent = sent, !.outcome = "returned",
                       !.value = h]

\* the direct attempt (lines 112-140): its result is returned, its failure is
\* logged and the session-based request follows
AfterDirect(c, o) ==
    LET h == Handle(o)
        sent == Append(c.sent, [request |-> DirectRequest(Payload), outcome |-> o])
    IN  IF h.raised
        THEN [c EXCEPT !.pc = "session", !.sent = sent]
        ELSE [c EXCEPT !.pc = "done", !.sent = sent, !.outcome = "returned",
                       !.value = h]

\* one request of the session-based path (lines 142-166)
AfterSession(c, o, again) ==
    LET h == Handle(o)
        sent == Append(c.sent, [request |-> SessionRequest(Payload), outcome |-> o])
    IN  IF Retries(o, c.left, again)
        THEN [c EXCEPT !.sent = sent, !.left = @ - 1]
        ELSE [c EXCEPT !.pc = "done", !.sent = sent,
                       !.outcome = IF h.raised THEN "raised" ELSE "returned",
                       !.value = h]

\* get_assistant_response is called
ChatCall ==
    /\ chat.pc \in {"idle", "done"}
    /\ \E flag \in FlagValues :
          chat' = [NoChat EXCEPT
                      !.pc = IF use_direct_connection(flag)
                             THEN "direct" ELSE "session",
                      !.flag = flag,
                      !.left = RetryTotal]
    /\ UNCHANGED <<faults, files, stores, records, last, n1, n2, workers>>

\* the direct request is sent and ends
ChatDirect ==
    /\ chat.pc = "direct"
    /\ \E o \in Outcomes : chat' = AfterDirect(chat, o)
    /\ UNCHANGED <<faults, files, stores, records, last, n1, n2, workers>>

\* a session request is sent and ends
ChatSession ==
    /\ chat.pc = "session"
    /\ \E o \in Outcomes, again \in BOOLEAN : chat' = AfterSession(chat, o, again)
    /\ UNCHANGED <<faults, files, stores, records, last, n1, n2, workers>>

NextChat ==
    \/ ChatCall
    \/ ChatDirect
    \/ ChatSession

SpecChat == Init /\ [][NextChat]_vars

\* every request that was sent ends (timeout=30)
SpecChatFair ==
    /\ SpecChat
    /\ WF_vars(ChatDirect)
    /\ WF_vars(ChatSession)

----------------------------------------------------------------------------
(* Uploads alone, with every way in which building the store can fail *)

\* what can go wrong in one upload: the directory of the upload cannot be
\* made, Chroma cannot make its directory, the embedding fails, the commit
\* of the row fails
ProcessFaults == UploadFaults \cup {"chroma"}

\* the observation of a request together with the state it found
WithPre(obs) ==
    [x \in (DOMAIN obs) \cup {"pre"} |-> IF x = "pre" THEN Cur ELSE obs[x]]

\* POST /knowledge-base/upload-pdf
UploadPdfAnyFault ==
    /\ Idle
    /\ \E company_name \in Companies, filename \in FileNames,
          fault \in ProcessFaults :
       /\ MayFail(fault)
       /\ \E file_content \in
                (IF filename = ValidName THEN Contents ELSE {NoContent}) :
          \E id \in (IF Ids \ DOMAIN records = {} THEN {0}
                     ELSE Ids \ DOMAIN records) :
          LET out == upload_pdf(Cur, company_name, filename, file_content,
                                id, fault)
          IN  /\ out.kind = "ok" => id # 0
              /\ Inject(fault, out.kind = "exc")
              /\ Become(out.st)
              /\ last' = WithPre(Served("upload_pdf",
                                        Req(company_name, filename, file_content,
                                            IF out.kind = "ok" THEN id ELSE 0, ""),
                                        fault, out, TRUE))
              /\ UNCHANGED <<chat, n1, n2, workers>>

NextUpload ==
    \/ Deliver
    \/ UploadPdfAnyFault

SpecUpload == Init /\ [][NextUpload]_vars

----------------------------------------------------------------------------
(* The service methods called directly *)

\* get_vector_store_path as a call that can fail: the method has no
\* try/except, so an exception raised in it leaves it as it is.
\* fault: "attr" (company_name is no str, company_name.replace fails)
GetVectorStorePathCall(st, company_name, fault) ==
    IF fault = "attr"
    THEN Raise(st, ErrText(fault))
    ELSE Return(st, get_vector_store_path(company_name))

\* check_company_knowledge_base_exists as a call that can fail: no try/except
\* either.  faults: "attr", "stat" (Path.exists() raises an OSError)
CheckExistsCall(st, company_name, fault) ==
    LET vector_store_path == GetVectorStorePathCall(st, company_name, fault)
    IN  IF vector_store_path.raised THEN vector_store_path
        ELSE IF fault = "stat" THEN Raise(st, ErrText(fault))
        ELSE Return(st, check_company_knowledge_base_exists(st, company_name))

\* the arguments of a direct call
Args(company, file_name, file_path, content, id, question) ==
    [company |-> company, file_name |-> file_name, file_path |-> file_path,
     content |-> content, id |-> id, question |-> question]

\* What a direct call leaves in last: the method (op), its arguments (req),
\* the external call that failed (fault), the state before the call (pre),
\* whether the method raised, the message of the exception, the value returned.
Result(op, req, fault, r) ==
    [op |-> op, req |-> req, fault |-> fault, pre |-> Cur,
     raised |-> r.raised, msg |-> r.msg, ret |-> r.ret]

\* the path save_uploaded_file writes a company's file to
SavedPath(company_name, file_name) ==
    PathJoin(PathJoin(uploads_dir, SafeCompanyName(company_name)), file_name)

\* bytes a caller saves
SavedContents == {PdfA, PdfB, PdfNoPages}

\* the files a caller may name: those save_uploaded_file writes
SavedPaths == {PathStr(SavedPath(c, ValidName)) : c \in Companies}

\* a direct call during which the external call named by fault fails raises;
\* such calls fail any number of times
Fails(fault, raised) ==
    /\ fault # "none" => raised
    /\ UNCHANGED faults

SvcGetVectorStorePath ==
    /\ Idle
    /\ \E company_name \in Companies, fault \in {"none", "attr"} :
       LET r == GetVectorStorePathCall(Cur, company_name, fault)
       IN  /\ Fails(fault, r.raised)
           /\ Become(r.st)
           /\ last' = Result("get_vector_store_path",
                             Args(company_name, <<>>, <<>>, NoContent, 0, ""),
                             fault, r)
           /\ UNCHANGED <<chat, n1, n2, workers>>

SvcCheckExists ==
    /\ Idle
    /\ \E company_name \in Companies, fault \in {"none", "attr", "stat"} :
       LET r == CheckExistsCall(Cur, company_name, fault)
       IN  /\ Fails(fault, r.raised)
           /\ Become(r.st)
           /\ last' = Result("check_company_knowledge_base_exists",
                             Args(company_name, <<>>, <<>>, NoContent, 0, ""),
                             fault, r)
           /\ UNCHANGED <<chat, n1, n2, workers>>

\* upload_and_process_pdf on the file saved for some company, saved or not
SvcUploadAndProcessPdf ==
    /\ Idle
    /\ \E company_name \in Companies, file_path \in SavedPaths,
          fault \in {"none", "chroma", "embed"} :
       LET r == upload_and_process_pdf(Cur, file_path, company_name, fault)
       IN  /\ Fails(fault, r.raised)
           /\ Become(r.st)
           /\ last' = Result("upload_and_process_pdf",
                             Args(company_name, <<>>, file_path, NoContent, 0, ""),
                             fault, r)
           /\ UNCHANGED <<chat, n1, n2, workers>>

SvcAnswerQuestion ==
    /\ Idle
    /\ \E company_name \in Companies, question \in Questions,
          fault \in AnswerFaults :
       LET r == answer_question(Cur, company_name, question, fault)
       IN  /\ Fails(fault, r.raised)
           /\ Become(r.st)
           /\ last' = Result("answer_question",
                             Args(company_name, <<>>, <<>>, NoContent, 0, question),
                             fault, r)
           /\ UNCHANGED <<chat, n1, n2, workers>>

SvcDeleteCompanyKnowledgeBase ==
    /\ Idle
    /\ \E company_name \in Companies, fault \in {"none", "rmtree"} :
       LET r == kb_delete_company_knowledge_base(Cur, company_name, fault)
       IN  /\ Fails(fault, r.raised)
           /\ Become(r.st)
           /\ last' = Result("delete_company_knowledge_base",
                             Args(company_name, <<>>, <<>>, NoContent, 0, ""),
                             fault, r)
           /\ UNCHANGED <<chat, n1, n2, workers>>

SvcSaveUploadedFile ==
    /\ Idle
    /\ \E company_name \in Companies, file_content \in SavedContents,
          fault \in {"none", "mkdir"} :
       LET r == save_uploaded_file(Cur, file_content, company_name, ValidName,
                                   fault)
       IN  /\ Fails(fault, r.raised)
           /\ Become(r.st)
           /\ last' = Result("save_uploaded_file",
                             Args(company_name, ValidName, <<>>, file_content, 0, ""),
                             fault, r)
           /\ UNCHANGED <<chat, n1, n2, workers>>

\* create_document_record with the arguments upload_pdf gives it
SvcCreateDocumentRecord ==
    /\ Idle
    /\ \E company_name \in Companies, fault \in {"none", "commit"} :
       \E id \in (IF Ids \ DOMAIN records = {} THEN {0}
                  ELSE Ids \ DOMAIN records) :
       LET file_path == PathStr(SavedPath(company_name, ValidName))
           r == create_document_record(Cur, id, company_name, ValidName,
                    file_path, PathStr(get_vector_store_path(company_name)),
                    fault)
       IN  /\ ~r.raised => id # 0
           /\ Fails(fault, r.raised)
           /\ Become(r.st)
           /\ last' = Result("create_document_record",
                             Args(company_name, ValidName, file_path, NoContent,
                                  IF r.raised THEN 0 ELSE id, ""),
                             fault, r)
           /\ UNCHANGED <<chat, n1, n2, workers>>

SvcGetDocumentsByCompany ==
    /\ Idle
    /\ \E company_name \in Companies, fault \in QueryFaults :
       LET r == get_documents_by_company(Cur, company_name, fault)
       IN  /\ Fails(fault, r.raised)
           /\ Become(r.st)
           /\ last' = Result("get_documents_by_company",
                             Args(company_name, <<>>, <<>>, NoContent, 0, ""),
                             fault, r)
           /\ UNCHANGED <<chat, n1, n2, workers>>

SvcGetDocumentById ==
    /\ Idle
    /\ \E document_id \in RequestIds, fault \in QueryFaults :
       LET r == get_document_by_id(Cur, document_id, fault)
       IN  /\ Fails(fault, r.raised)
           /\ Become(r.st)
           /\ last' = Result("get_document_by_id",
                             Args(<<>>, <<>>, <<>>, NoContent, document_id, ""),
                             fault, r)
           /\ UNCHANGED <<chat, n1, n2, workers>>

SvcDeleteDocument ==
    /\ Idle
    /\ \E document_id \in RequestIds, fault \in DeleteFaults :
       LET r == delete_document(Cur, document_id, fault)
       IN  /\ Fails(fault, r.raised)
           /\ Become(r.st)
           /\ last' = Result("delete_document",
                             Args(<<>>, <<>>, <<>>, NoContent, document_id, ""),
                             fault, r)
           /\ UNCHANGED <<chat, n1, n2, workers>>

NextServices ==
    \/ Deliver
    \/ SvcGetVectorStorePath
    \/ SvcCheckExists
    \/ SvcUploadAndProcessPdf
    \/ SvcAnswerQuestion
    \/ SvcDeleteCompanyKnowledgeBase
    \/ SvcSaveUploadedFile
    \/ SvcCreateDocumentRecord
    \/ SvcGetDocumentsByCompany
    \/ SvcGetDocumentById
    \/ SvcDeleteDocument

SpecServices == Init /\ [][NextServices]_vars

----------------------------------------------------------------------------
(* Two executions of upload_and_process_pdf at the same time (two server   *)
(* workers on one filesystem, or two threads).  Each runs lines 78-92 step *)
(* by step; nothing in the code keeps the steps of one execution together. *)

\* an execution between its exists-check and its return
Active(w) == w.pc \in {"check", "rmtree", "create", "add"}

Other(p) == 3 - p

\* the chunks an execution adds
ChunksOf(content) == SeqRange(split_documents(Load(content)))

\* the outcome of an execution: whether it raised, whether the directory
\* then held exactly its chunks (single), whether the other execution was
\* under way at some time during it (overlapped)
Finished(p, raised, tree) ==
    LET w == workers[p]
        path == get_vector_store_path(w.company)
    IN  [op |-> "upload_and_process_pdf", worker |-> p,
         req |-> Args(w.company, <<>>, <<>>, w.content, 0, ""),
         raised |-> raised,
         single |-> DirExists(tree, path) /\ tree[path] = ChunksOf(w.content),
         overlapped |-> w.overlapped]

\* the execution starts: the PDF is loaded and split (lines 60-74)
RaceStart(p) ==
    /\ workers[p].pc = "idle"
    /\ \E company_name \in Companies, content \in {PdfA, PdfB} :
          workers' = [workers EXCEPT
                        ![p] = [pc |-> "check", company |-> company_name,
                                content |-> content, opened |-> FALSE,
                                overlapped |-> Active(workers[Other(p)])],
                        ![Other(p)].overlapped = @ \/ Active(workers[Other(p)])]
    /\ UNCHANGED <<faults, files, stores, records, last, chat, n1, n2>>

\* if vector_store_path.exists():   (line 83)
RaceCheck(p) ==
    /\ workers[p].pc = "check"
    /\ workers' = [workers EXCEPT ![p].pc =
                      IF DirExists(stores, get_vector_store_path(workers[p].company))
                      THEN "rmtree" ELSE "create"]
    /\ UNCHANGED <<faults, files, stores, records, last, chat, n1, n2>>

\* shutil.rmtree(vector_store_path)   (line 85): FileNotFoundError when the
\* directory is gone; a directory another execution has opened is removed
\* under it
RaceRmtree(p) ==
    LET path == get_vector_store_path(workers[p].company)
        q == Other(p)
    IN  /\ workers[p].pc = "rmtree"
        /\ IF DirExists(stores, path)
           THEN /\ stores' = rmtree(stores, path)
                /\ workers' = [workers EXCEPT
                      ![p].pc = "create",
                      ![q].opened = @ /\ ~IsPrefix(path,
                                  get_vector_store_path(workers[q].company))]
                /\ UNCHANGED last
           ELSE /\ workers' = [workers EXCEPT ![p] = IdleWorker]
                /\ last' = Finished(p, TRUE, stores)
                /\ UNCHANGED stores
        /\ UNCHANGED <<faults, files, records, chat, n1, n2>>

\* Chroma.from_documents, first half: the directory is made and opened
RaceCreate(p) ==
    /\ workers[p].pc = "create"
    /\ stores' = ChromaOpen(stores, get_vector_store_path(workers[p].company))
    /\ workers' = [workers EXCEPT ![p].pc = "add", ![p].opened = TRUE]
    /\ UNCHANGED <<faults, files, records, last, chat, n1, n2>>

\* Chroma.from_documents, second half: the chunks are added to the opened
\* collection.  When the directory was removed since it was opened the
\* write fails or goes to files that are no longer in the directory
RaceAdd(p) ==
    LET path == get_vector_store_path(workers[p].company)
        added == [stores EXCEPT ![path] = @ \cup ChunksOf(workers[p].content)]
    IN  /\ workers[p].pc = "add"
        /\ IF workers[p].opened
           THEN /\ stores' = added
                /\ last' = Finished(p, FALSE, added)
           ELSE /\ UNCHANGED stores
                /\ \E raised \in BOOLEAN : last' = Finished(p, raised, stores)
        /\ workers' = [workers EXCEPT ![p] = IdleWorker]
        /\ UNCHANGED <<faults, files, records, chat, n1, n2>>

NextRace ==
    \E p \in {1, 2} :
        \/ RaceStart(p)
        \/ RaceCheck(p)
        \/ RaceRmtree(p)
        \/ RaceCreate(p)
        \/ RaceAdd(p)

SpecRace == Init /\ [][NextRace]_vars

----------------------------------------------------------------------------
(* Properties *)

\* the six endpoints
Endpoints == {"upload_pdf", "ask_question", "get_company_documents",
              "get_document", "delete_document",
              "delete_company_knowledge_base"}

\* the row the table held, before the last call, under the id the call names
RowBefore == RowOf(last.before, last.req.id)

\* the ids of the rows a table holds for a company name
RowsOf(table, company_name) ==
    {i \in DOMAIN table : table[i].company_name = company_name}

\* C1: after upload_and_process_pdf has succeeded for a company (the handler
\* went on to create_document_record), the store directory at
\* get_vector_store_path(company) exists and holds exactly the chunks of the
\* PDF just uploaded, whatever the directory held before.
C1_StoreHoldsUploadedChunks ==
    (last.op = "upload_pdf" /\ "create_document_record" \in last.calls) =>
        LET path == get_vector_store_path(last.req.company)
        IN  /\ DirExists(stores, path)
            /\ stores[path] = SeqRange(split_documents(Load(last.req.content)))

\* C1 witness: a successful upload of document B for a company whose store
\* directory existed before and for which an earlier upload left a row
C1_Witness ==
    /\ last.op = "upload_pdf"
    /\ last.status = 200
    /\ last.existed
    /\ last.req.content = PdfB
    /\ \E i \in DOMAIN last.before :
          last.before[i].vector_store_path
              = PathStr(get_vector_store_path(last.req.company))
    /\ Cardinality(stores[get_vector_store_path(last.req.company)]) = 4

\* C2: get_vector_store_path gives base_dir joined with the name in which
\* every space and every slash is an underscore, and two names have the same
\* path exactly when they are equal after that replacement.
C2_SamePathIffSameNormalizedName ==
    last.op = "get_vector_store_path" =>
        /\ last.path1 = PathJoin(base_dir, SafeCompanyName(n1))
        /\ last.path2 = PathJoin(base_dir, SafeCompanyName(n2))
        /\ (last.path1 = last.path2
               <=> SafeCompanyName(n1) = SafeCompanyName(n2))

\* C3: when the company's store directory does not exist, POST /question
\* answers 404 with a detail containing 'No knowledge base found' and never
\* calls answer_question; answer_question called directly raises an exception
\* whose message contains that text, and neither creates the directory or
\* changes anything.
C3_NoKnowledgeBase ==
    /\ (last.op = "ask_question" /\ ~last.existed) =>
          /\ last.status = 404
          /\ Contains(last.detail, "No knowledge base found")
          /\ "answer_question" \notin last.calls
          /\ ~last.changed
          /\ ~DirExists(stores, get_vector_store_path(last.req.company))
    /\ (last.op = "answer_question" /\ ~last.existed) =>
          /\ last.kind = "exc"
          /\ Contains(last.exc, "No knowledge base found")
          /\ ~last.changed
          /\ ~DirExists(stores, get_vector_store_path(last.req.company))

\* C3 witness: a question through the endpoint for a company without a store
\* directory, while another company has one that holds chunks
C3_Witness ==
    /\ last.op = "ask_question"
    /\ ~last.existed
    /\ last.status = 404
    /\ \E p \in DOMAIN stores : stores[p] # {}

\* C4: an upload whose file name is missing or does not end in .pdf, or whose
\* content does not start with %PDF, is answered 400 and no service method is
\* called: no file, store or row changes.
C4_InvalidUploadRejected ==
    (/\ last.op = "upload_pdf"
     /\ \/ last.req.file_name # ValidName
        \/ last.req.content.head # <<"%", "P", "D", "F", "-">>) =>
        /\ last.status = 400
        /\ last.calls = {}
        /\ ~last.changed
        /\ records = last.before

\* C4 witness: an upload with a .Pdf name and content that is no PDF is
\* rejected while rows and files exist
C4_Witness ==
    /\ last.op = "upload_pdf"
    /\ last.req.file_name = ValidName
    /\ last.req.content = NotPdf
    /\ last.status = 400
    /\ records # EmptyFn
    /\ files # EmptyFn

\* C5: an upload answered 200 adds exactly one row, under an id no row had,
\* with the company name and file name as submitted and with
\* vector_store_path = str(get_vector_store_path(company_name)), and leaves
\* every other row as it was; no call other than a delete changes the table,
\* and every row of a company carries the path of the company's one store.
C5_UploadAddsOneRecord ==
    /\ (last.op = "upload_pdf" /\ last.status = 200) =>
          /\ last.req.id \notin DOMAIN last.before
          /\ DOMAIN records = (DOMAIN last.before) \cup {last.req.id}
          /\ \A i \in DOMAIN last.before : records[i] = last.before[i]
          /\ records[last.req.id].company_name = last.req.company
          /\ records[last.req.id].file_name = last.req.file_name
          /\ records[last.req.id].vector_store_path
                = PathStr(get_vector_store_path(last.req.company))
          /\ Cardinality(RowsOf(records, last.req.company))
                = Cardinality(RowsOf(last.before, last.req.company)) + 1
    /\ (/\ last.op \in {"upload_pdf", "ask_question", "answer_question",
                        "get_company_documents", "get_document"}
        /\ ~(last.op = "upload_pdf" /\ last.status = 200)) =>
          records = last.before
    /\ \A i \in DOMAIN records :
          records[i].vector_store_path
              = PathStr(get_vector_store_path(records[i].company_name))

\* C5 witness: the second successful upload of the same file name for a
\* company: two rows, one store directory
C5_Witness ==
    /\ last.op = "upload_pdf"
    /\ last.status = 200
    /\ \E i \in DOMAIN last.before :
          /\ last.before[i].company_name = last.req.company
          /\ last.before[i].file_name = last.req.file_name
    /\ Cardinality(RowsOf(records, last.req.company)) = 2

\* C6: after DELETE /company/{c} has answered 200 no row with company_name c
\* remains and the directory get_vector_store_path(c) does not exist; the
\* answer is 200 also when c had no row and no store directory.
C6_DeleteCompanyLeavesNothing ==
    /\ (last.op = "delete_company_knowledge_base" /\ last.status = 200) =>
          /\ RowsOf(records, last.req.company) = {}
          /\ ~DirExists(stores, get_vector_store_path(last.req.company))
    /\ (/\ last.op = "delete_company_knowledge_base"
        /\ last.fault = "none"
        /\ RowsOf(last.before, last.req.company) = {}
        /\ ~last.existed) =>
          last.status = 200

\* C6 witness: DELETE /company/{c} answers 200 for a company that had a row
\* and a store directory
C6_Witness ==
    /\ last.op = "delete_company_knowledge_base"
    /\ last.status = 200
    /\ last.existed
    /\ RowsOf(last.before, last.req.company) # {}
    /\ last.req.company = <<"a", " ", "b">>

\* C7: when no external call fails, delete_document on the id of an existing
\* row returns True, and afterwards the row is gone (get_document_by_id gives
\* None, GET /document/{id} answers 404), no file exists at the row's
\* file_path and no directory at its vector_store_path.
C7_DeleteDocumentRemovesAll ==
    (last.op = "delete_document" /\ RowBefore.found /\ last.fault = "none") =>
        /\ last.ret = TRUE
        /\ last.status = 200
        /\ last.req.id \notin DOMAIN records
        /\ get_document_by_id(Cur, last.req.id, "none").ret = None
        /\ Respond(get_document(Cur, last.req.id, "none"), TRUE).status = 404
        /\ ~FileExists(Cur, RowBefore.file_path)
        /\ ~StoreExists(Cur, RowBefore.vector_store_path)

\* C7 witness: a row is deleted whose store directory existed and whose file
\* another row still names
C7_Witness ==
    /\ last.op = "delete_document"
    /\ RowBefore.found
    /\ last.status = 200
    /\ last.changed
    /\ \E i \in DOMAIN records : records[i].file_path = RowBefore.file_path

\* C8: for an id no row has, get_document_by_id gives None and delete_document
\* gives False, GET and DELETE /document/{id} answer 404, and nothing changes.
C8_UnknownDocumentId ==
    /\ (/\ last.op \in {"get_document", "delete_document"}
        /\ ~RowBefore.found) =>
          /\ ~last.changed
          /\ records = last.before
    /\ (/\ last.op \in {"get_document", "delete_document"}
        /\ ~RowBefore.found
        /\ last.fault = "none") =>
          /\ last.status = 404
          /\ last.kind = "http"
          /\ last.op = "get_document" => last.ret = None
          /\ last.op = "delete_document" => last.ret = FALSE

\* C8 witness: DELETE /document/{id} for an id no row has, while rows, files
\* and stores exist
C8_Witness ==
    /\ last.op = "delete_document"
    /\ ~RowBefore.found
    /\ last.status = 404
    /\ records # EmptyFn
    /\ files # EmptyFn

\* C9: get_documents_by_company(c) gives exactly the rows whose company_name
\* equals c as written (the name is not normalised), none when there is none.
C9_DocumentsByExactName ==
    (last.op = "get_company_documents" /\ last.fault = "none") =>
        /\ last.status = 200
        /\ last.ret = {i \in DOMAIN records :
                          records[i].company_name = last.req.company}
        /\ ~last.changed

\* C9 witness: the rows of 'a b' are asked for while 'a/b', which has the
\* same normalised name, has a row too
C9_Witness ==
    /\ last.op = "get_company_documents"
    /\ last.req.company = <<"a", " ", "b">>
    /\ last.status = 200
    /\ Cardinality(last.ret) = 1
    /\ RowsOf(records, <<"a", "/", "b">>) # {}

\* C10: in every endpoint an exception of a service call that is no
\* HTTPException is answered 500 with the exception's message as detail, and
\* an HTTPException raised in the handler reaches the client with its status
\* (400 or 404) and detail unchanged.
C10_ExceptionsBecome500 ==
    last.op \in Endpoints =>
        /\ last.kind = "exc" => (last.status = 500 /\ last.detail = last.exc)
        /\ last.kind = "http" =>
              /\ last.http \in {400, 404}
              /\ last.status = last.http
              /\ last.detail = last.exc
        /\ last.kind = "ok" => last.status = 200

\* C10 witness: the commit of an upload fails and the upload is answered 500
\* with the prefixed message
C10_Witness ==
    /\ last.op = "upload_pdf"
    /\ last.fault = "commit"
    /\ last.status = 500
    /\ last.detail = <<Txt("Error creating document record: "), Txt("commit")>>

\* the public methods of the two services that have a try/except, and the
\* prefix each puts before the message of the exception it caught
HandledMethods ==
    {"upload_and_process_pdf", "answer_question",
     "delete_company_knowledge_base", "save_uploaded_file",
     "create_document_record", "get_documents_by_company",
     "get_document_by_id", "delete_document"}

UnhandledMethods == {"get_vector_store_path", "check_company_knowledge_base_exists"}

Prefix(op) ==
    CASE op = "upload_and_process_pdf" -> "Error processing PDF: "
      [] op = "answer_question" -> "Error answering question: "
      [] op = "delete_company_knowledge_base" -> "Error deleting vector store: "
      [] op = "save_uploaded_file" -> "Error saving file: "
      [] op = "create_document_record" -> "Error creating document record: "
      [] op = "get_documents_by_company" -> "Error getting documents: "
      [] op = "get_document_by_id" -> "Error getting document: "
      [] op = "delete_document" -> "Error deleting document: "

\* C11 as stated: an exception raised in any public method of the two
\* services leaves the method with a message that starts with a fixed prefix
\* ('Error ...: '), the method's own where it has one.
C11_EveryMethodPrefixes ==
    (last.op \in HandledMethods \cup UnhandledMethods /\ last.raised) =>
        /\ Len(last.msg) >= 2
        /\ last.op \in HandledMethods => last.msg[1] = Txt(Prefix(last.op))
        /\ last.msg[1] \in {Txt(Prefix(m)) : m \in HandledMethods}

\* C11 amended: an exception raised in a public method that has a try/except
\* (all but get_vector_store_path and check_company_knowledge_base_exists)
\* leaves it with a message that is the method's prefix followed by the
\* message of the exception caught; an exception raised in one of the two
\* methods without a try/except leaves it unchanged, without a prefix.
C11_HandledMethodsPrefix ==
    /\ (last.op \in HandledMethods /\ last.raised) =>
          /\ Len(last.msg) >= 2
          /\ last.msg[1] = Txt(Prefix(last.op))
    /\ (last.op \in UnhandledMethods /\ last.raised) =>
          last.msg = ErrText(last.fault)

\* C11 witness: the query of delete_document fails: the message carries the
\* prefix of delete_document before that of get_document_by_id
C11_Witness ==
    /\ last.op = "delete_document"
    /\ last.raised
    /\ last.msg = <<Txt("Error deleting document: "),
                    Txt("Error getting document: "), Txt("query")>>

\* what answer_question retrieved for its last call
Retrieved ==
    Retrieve(stores[get_vector_store_path(last.req.company)], last.req.question)

\* C12 as stated: for n retrieved documents answer_question returns min(3, n)
\* sources, the first ones in retrieval order, each with a content of at most
\* 200 characters.
C12_SourcesAtMost200 ==
    (last.op = "answer_question" /\ ~last.raised) =>
        /\ Len(last.ret.sources)
              = (IF Len(Retrieved) < 3 THEN Len(Retrieved) ELSE 3)
        /\ \A i \in 1..Len(last.ret.sources) :
              /\ last.ret.sources[i].page = Retrieved[i].page
              /\ last.ret.sources[i].doc = Retrieved[i].doc
              /\ last.ret.sources[i].start = Retrieved[i].start
              /\ last.ret.sources[i].content_len <= 200

\* C12 amended: for n retrieved documents answer_question returns min(3, n)
\* sources, the first ones in retrieval order; the content of a source is the
\* document's text when that has at most 200 characters, and otherwise its
\* first 200 characters followed by '...', 203 characters in all.
C12_SourcesTrimmed ==
    (last.op = "answer_question" /\ ~last.raised) =>
        /\ Len(last.ret.sources)
              = (IF Len(Retrieved) < 3 THEN Len(Retrieved) ELSE 3)
        /\ \A i \in 1..Len(last.ret.sources) :
              /\ last.ret.sources[i].page = Retrieved[i].page
              /\ last.ret.sources[i].doc = Retrieved[i].doc
              /\ last.ret.sources[i].start = Retrieved[i].start
              /\ last.ret.sources[i].content_len
                    = (IF Retrieved[i].len <= 200 THEN Retrieved[i].len ELSE 203)

\* C12 witness: four documents retrieved, three sources returned, one of
\* them trimmed
C12_Witness ==
    /\ last.op = "answer_question"
    /\ ~last.raised
    /\ Len(Retrieved) = 4
    /\ Len(last.ret.sources) = 3
    /\ \E i \in 1..3 : last.ret.sources[i].content_len = 203

\* C13: every result answer_question returns has confidence_score 0.8 (8
\* tenths), whatever the company, the question and the retrieved documents.
C13_ConfidenceIsConstant ==
    (last.op = "answer_question" /\ ~last.raised) =>
        last.ret.confidence_score = 8

\* C13 witness: an answer from an empty store, without sources, for the
\* second question
C13_Witness ==
    /\ last.op = "answer_question"
    /\ ~last.raised
    /\ last.req.question = "q2"
    /\ last.ret.sources = <<>>
    /\ last.ret.confidence_score = 8

\* C14: two executions of upload_and_process_pdf race: the execution that
\* fails on a directory that is gone, and the execution after which the
\* directory does not hold exactly its chunks, exist, and each happens only
\* to an execution during which the other one was under way.
C14_BadOutcomeOnlyWhenInterleaved ==
    last.op = "upload_and_process_pdf" =>
        ((last.raised \/ ~last.single) => last.overlapped)

\* C14 witness: two executions for the same company, the one that finishes
\* last does not raise, and the directory holds the chunks of both PDFs
C14_Witness ==
    /\ last.op = "upload_and_process_pdf"
    /\ ~last.raised
    /\ ~last.single
    /\ last.req.company = <<"a", " ", "b">>
    /\ DirExists(stores, get_vector_store_path(last.req.company))
    /\ stores[get_vector_store_path(last.req.company)]
          = ChunksOf(PdfA) \cup ChunksOf(PdfB)

\* C15: upload_and_process_pdf on a file from which the loader gives no page
\* raises an exception whose message says that the PDF is empty, and leaves
\* every directory as it was: an existing store stays, none is made.
C15_EmptyPdfTouchesNothing ==
    (/\ last.op = "upload_and_process_pdf"
     /\ PathOf(last.req.file_path) \in DOMAIN last.pre.files
     /\ last.pre.files[PathOf(last.req.file_path)].pages = <<>>) =>
        /\ last.raised
        /\ Contains(last.msg, "PDF file is empty or could not be read")
        /\ stores = last.pre.stores
        /\ Cur = last.pre

\* C15 witness: the PDF without pages is processed for a company whose store
\* holds the chunks of an earlier upload
C15_Witness ==
    /\ last.op = "upload_and_process_pdf"
    /\ last.req.company = <<"a", " ", "b">>
    /\ PathOf(last.req.file_path) \in DOMAIN last.pre.files
    /\ last.pre.files[PathOf(last.req.file_path)] = PdfNoPages
    /\ last.raised
    /\ DirExists(stores, get_vector_store_path(last.req.company))
    /\ stores[get_vector_store_path(last.req.company)] # {}

\* C16: delete_company_knowledge_base(c) returns True and removes the
\* directory when the store directory of c exists, returns False and changes
\* nothing when it does not, and so returns False when called again directly
\* after it returned True.
C16_DeleteKnowledgeBaseResult ==
    (last.op = "delete_company_knowledge_base") =>
        LET path == get_vector_store_path(last.req.company)
        IN  /\ last.fault = "none" => ~last.raised
            /\ (~last.raised /\ DirExists(last.pre.stores, path)) =>
                  /\ last.ret = TRUE
                  /\ ~DirExists(stores, path)
                  /\ files = last.pre.files
                  /\ records = last.pre.records
                  /\ kb_delete_company_knowledge_base(Cur, last.req.company,
                                                      "none").ret = FALSE
            /\ ~DirExists(last.pre.stores, path) =>
                  /\ ~last.raised
                  /\ last.ret = FALSE
                  /\ Cur = last.pre

\* C16 witness: the store of 'a b', which holds chunks, is removed
C16_Witness ==
    /\ last.op = "delete_company_knowledge_base"
    /\ last.req.company = <<"a", " ", "b">>
    /\ ~last.raised
    /\ last.ret = TRUE
    /\ last.pre.stores[get_vector_store_path(last.req.company)] # {}

Touched ==
    IF last.op = "delete_document"
    THEN PathOf(last.pre.records[last.req.id].vector_store_path)
    ELSE get_vector_store_path(last.req.company)

\* C18: check_company_knowledge_base_exists(c) is true exactly when the
\* directory get_vector_store_path(c) exists, and over successful uploads,
\* document deletions and company deletions it is true iff the last of them
\* that touched that path was an upload: a successful upload makes it true
\* for its own path, a successful deletion makes it false for its own path,
\* and neither changes it for a company whose path is another one.
C18_ExistsIffLastTouchWasUpload ==
    /\ (last.op = "check_company_knowledge_base_exists" /\ ~last.raised) =>
          last.ret = DirExists(stores, get_vector_store_path(last.req.company))
    /\ (/\ last.op \in {"upload_and_process_pdf", "delete_document",
                        "delete_company_knowledge_base"}
        /\ ~last.raised
        /\ last.op # "upload_and_process_pdf" => last.ret = TRUE) =>
          \A c \in Companies :
             LET now == check_company_knowledge_base_exists(Cur, c)
                 was == check_company_knowledge_base_exists(last.pre, c)
             IN  IF get_vector_store_path(c) = Touched
                 THEN now = (last.op = "upload_and_process_pdf")
                 ELSE now = was

\* the rows of the deleted row's company that an upload for it wrote, the
\* deleted one left out
Siblings ==
    LET row == last.pre.records[last.req.id]
    IN  {j \in RowsOf(last.pre.records, row.company_name) \ {last.req.id} :
            last.pre.records[j].vector_store_path =
               PathStr(get_vector_store_path(row.company_name))}

\* C19: when a company has two rows written by uploads and delete_document
\* deletes one of them, the store directory of the company is gone afterwards
\* (check_company_knowledge_base_exists is false and a question is answered
\* with 404), while the other row is still there, unchanged, and still
\* carries the path of that directory.
C19_DeleteOneRowRemovesSharedStore ==
    (/\ last.op = "delete_document"
     /\ ~last.raised
     /\ last.ret = TRUE
     /\ last.pre.records[last.req.id].vector_store_path =
           PathStr(get_vector_store_path(
                      last.pre.records[last.req.id].company_name))
     /\ Siblings # {}) =>
        LET c == last.pre.records[last.req.id].company_name
        IN  /\ ~check_company_knowledge_base_exists(Cur, c)
            /\ ~DirExists(stores, get_vector_store_path(c))
            /\ \A q \in Questions :
                  Respond(ask_question(Cur, c, q, "none"), TRUE).status = 404
            /\ \A j \in Siblings :
                  /\ j \in DOMAIN records
                  /\ records[j] = last.pre.records[j]
                  /\ records[j].vector_store_path =
                        PathStr(get_vector_store_path(c))

\* C19 witness: 'a b' has two rows and a store with chunks, and one of the
\* rows is deleted
C19_Witness ==
    /\ last.op = "delete_document"
    /\ ~last.raised
    /\ last.ret = TRUE
    /\ last.pre.records[last.req.id].company_name = <<"a", " ", "b">>
    /\ last.pre.records[last.req.id].vector_store_path =
          PathStr(get_vector_store_path(<<"a", " ", "b">>))
    /\ Siblings # {}
    /\ DirExists(last.pre.stores, get_vector_store_path(<<"a", " ", "b">>))
    /\ last.pre.stores[get_vector_store_path(<<"a", " ", "b">>)] # {}
    /\ Siblings \subseteq DOMAIN records

\* the upload recorded in last saved its file and then failed to build the
\* store
ProcessFailed ==
    /\ last.op = "upload_pdf"
    /\ "upload_and_process_pdf" \in last.calls
    /\ "create_document_record" \notin last.calls

StoreDirs(tree) ==
    {p \in DOMAIN tree : p # base_dir \/ tree[p] # {}}

\* the directories that the vector_store_path of some row names
Referenced(table) ==
    {PathOf(table[i].vector_store_path) : i \in DOMAIN table}

\* C21: as long as no service call has failed, every existing vector store
\* directory is named by the vector_store_path of at least one row.
C21_NoOrphanStore ==
    faults = 0 => StoreDirs(stores) \subseteq Referenced(records)

\* C21 witness: no call has failed, a store with chunks exists and is named
\* by a row, and another row names a directory that does not exist
C21_Witness ==
    /\ faults = 0
    /\ \E p \in StoreDirs(stores) : stores[p] # {} /\ p \in Referenced(records)
    /\ \E i \in DOMAIN records :
          ~StoreExists(Cur, records[i].vector_store_path)

\* what belongs to one company in a state: its rows, its saved file, and its
\* store directory with the chunks in it
Belongings(st, d) ==
    [rows |-> [i \in RowsOf(st.records, d) |-> st.records[i]],
     saved |-> Restrict(st.files, {SavedPath(d, ValidName)} \cap DOMAIN st.files),
     store |-> IF DirExists(st.stores, get_vector_store_path(d))
               THEN <<st.stores[get_vector_store_path(d)]>>
               ELSE <<>>]

\* the operations that change something for a company
Writes ==
    {"save_uploaded_file", "upload_and_process_pdf", "create_document_record",
     "delete_document", "delete_company_knowledge_base"}

\* the company for which the operation recorded in last was performed
Actor ==
    IF last.op = "delete_document"
    THEN IF last.req.id \in DOMAIN last.pre.records
         THEN {last.pre.records[last.req.id].company_name}
         ELSE {}
    ELSE {last.req.company}

\* C22: companies are isolated: an upload, a document deletion or a company
\* deletion performed for a company c leaves the rows, the saved file and the
\* store (existence and content) of every other company d unchanged.
C22_CompaniesIsolated ==
    (last.op \in Writes) =>
        \A c \in Actor : \A d \in Companies \ {c} :
            Belongings(Cur, d) = Belongings(last.pre, d)

\* the row that the delete_document recorded in last was asked to delete
Doomed == last.pre.records[last.req.id]

\* C23: delete_document removes the file first, the store second and the row
\* last, and skips a file or a store that is missing.  So it succeeds for a
\* row whose file or store is gone; when removing the file raises, nothing
\* has changed; when removing the store raises, the file is already removed;
\* and in both cases, as when the commit fails, the row is still there.
C23_DeleteOrder ==
    (last.op = "delete_document" /\ last.req.id \in DOMAIN last.pre.records) =>
        /\ last.fault = "none" =>
              /\ ~last.raised
              /\ last.ret = TRUE
              /\ last.req.id \notin DOMAIN records
              /\ ~FileExists(Cur, Doomed.file_path)
              /\ ~StoreExists(Cur, Doomed.vector_store_path)
        /\ last.raised =>
              /\ records = last.pre.records
              /\ last.msg[1] = Txt("Error deleting document: ")
        /\ (last.raised /\ last.fault = "remove") =>
              /\ files = last.pre.files
              /\ stores = last.pre.stores
        /\ (last.raised /\ last.fault = "rmtree") =>
              /\ ~FileExists(Cur, Doomed.file_path)
              /\ stores = last.pre.stores
        /\ (last.raised /\ last.fault = "commit") =>
              /\ ~FileExists(Cur, Doomed.file_path)
              /\ ~StoreExists(Cur, Doomed.vector_store_path)
        /\ (last.fault = "remove" /\ ~FileExists(last.pre, Doomed.file_path)) =>
              ~last.raised
        /\ (last.fault = "rmtree"
              /\ ~StoreExists(last.pre, Doomed.vector_store_path)) => ~last.raised

\* C23 witness: removing the store raises after the file of the row was
\* removed, and the row is still there
C23_Witness ==
    /\ last.op = "delete_document"
    /\ last.req.id \in DOMAIN last.pre.records
    /\ last.raised
    /\ last.fault = "rmtree"
    /\ FileExists(last.pre, Doomed.file_path)
    /\ ~FileExists(Cur, Doomed.file_path)
    /\ last.req.id \in DOMAIN records

\* C23 witness of the skipped steps: a row whose file and store are both gone
\* is deleted
C23_WitnessMissing ==
    /\ last.op = "delete_document"
    /\ last.req.id \in DOMAIN last.pre.records
    /\ ~FileExists(last.pre, Doomed.file_path)
    /\ ~StoreExists(last.pre, Doomed.vector_store_path)
    /\ ~last.raised
    /\ last.ret = TRUE
    /\ last.req.id \notin DOMAIN records

\* the read operations of the two services
Reads ==
    {"get_documents_by_company", "get_document_by_id",
     "check_company_knowledge_base_exists", "answer_question"}

\* the state after the endpoint built on the read operation recorded in last,
\* called in the state and with the arguments and the failure of that call
EndpointAfter ==
    CASE last.op = "get_documents_by_company" ->
            get_company_documents(last.pre, last.req.company,
                                  IF last.fault = "query" THEN "query" ELSE "none").st
      [] last.op = "get_document_by_id" ->
            get_document(last.pre, last.req.id,
                         IF last.fault = "query" THEN "query" ELSE "none").st
      [] OTHER ->
            ask_question(last.pre, last.req.company, "q1",
                         IF last.fault = "llm" THEN "llm" ELSE "none").st

\* C24: get_documents_by_company, get_document_by_id,
\* check_company_knowledge_base_exists and answer_question, and the endpoints
\* built on them, leave the rows, the saved files and the set of store
\* directories as they were, whether they return or raise.
C24_ReadsChangeNothing ==
    (last.op \in Reads) =>
        /\ records = last.pre.records
        /\ files = last.pre.files
        /\ DOMAIN stores = DOMAIN last.pre.stores
        /\ EndpointAfter.records = last.pre.records
        /\ EndpointAfter.files = last.pre.files
        /\ DOMAIN EndpointAfter.stores = DOMAIN last.pre.stores

\* C24 witness: answer_question raises for a company without a directory
\* while rows, files and other directories exist
C24_Witness ==
    /\ last.op = "answer_question"
    /\ last.raised
    /\ ~DirExists(stores, get_vector_store_path(last.req.company))
    /\ records # EmptyFn
    /\ files # EmptyFn
    /\ \E p \in DOMAIN stores : stores[p] # {}

\* the last component of a path
Final(path) == path[Len(path)]

\* C25: save_uploaded_file and get_vector_store_path normalise a company name
\* in the same way, normalising twice gives what normalising once gives, the
\* normalised name has no space and no slash, and so the upload directory and
\* the store directory of a company end in the same component.
C25_SameFinalComponent ==
    last.op = "company_dir" =>
        /\ company_dir(n1) = PathJoin(uploads_dir, SafeCompanyName(n1))
        /\ SafeCompanyName(SafeCompanyName(n1)) = SafeCompanyName(n1)
        /\ ~HasChar(SafeCompanyName(n1), " ")
        /\ ~HasChar(SafeCompanyName(n1), "/")
        /\ Final(last.path1) = Final(last.path2)

\* the request sent last in the call of get_assistant_response
LastSent == chat.sent[Len(chat.sent)]

\* an outcome from which no result can be taken: no connection, an error
\* status, a body that is no JSON or no JSON container
Unusable(o) ==
    \/ o.status = 0
    \/ o.status >= 400
    \/ ~o.body.json
    \/ ~o.body.container

\* C26: get_assistant_response sends a direct request only when
\* USE_DIRECT_CONNECTION is 'true' (in any case of the letters), and then
\* first and once; a failed direct attempt is not raised but followed by the
\* session-based request; a failed session-based request is raised to the
\* caller; a call that returns gives the 'messages' field of the response it
\* got last when the response has one, and the whole response otherwise.
C26_DirectThenSession ==
    /\ \A i \in 1..Len(chat.sent) :
          chat.sent[i].request.via = "direct" =>
             /\ chat.flag \in {<<"t", "r", "u", "e">>, <<"T", "R", "U", "E">>}
             /\ i = 1
    /\ (chat.flag \in {<<"t", "r", "u", "e">>, <<"T", "R", "U", "E">>}
           /\ chat.sent # <<>>) => chat.sent[1].request.via = "direct"
    /\ chat.pc = "done" =>
          /\ chat.sent # <<>>
          /\ (LastSent.request.via = "direct") =>
                (~Unusable(LastSent.outcome) /\ chat.outcome = "returned")
          /\ (LastSent.request.via = "session" /\ Unusable(LastSent.outcome)) =>
                /\ chat.outcome = "raised"
                /\ chat.value.error =
                      (IF LastSent.outcome.status = 0 THEN "ConnectionError"
                       ELSE IF LastSent.outcome.status >= 400 THEN "HTTPError"
                       ELSE IF ~LastSent.outcome.body.json THEN "JSONDecodeError"
                       ELSE "TypeError")
          /\ ~Unusable(LastSent.outcome) =>
                /\ chat.outcome = "returned"
                /\ chat.value.of = LastSent.outcome.body
                /\ chat.value.part =
                      (IF "messages" \in LastSent.outcome.body.keys
                       THEN "messages" ELSE "all")
    /\ (chat.sent # <<>> /\ chat.sent[1].request.via = "direct"
           /\ Unusable(chat.sent[1].outcome)) =>
          /\ chat.pc = "done" => LastSent.request.via = "session"
          /\ chat.pc # "done" => chat.pc = "session"

\* C26 witness: with USE_DIRECT_CONNECTION=TRUE the direct request fails with
\* status 500, the session request is answered with a body that has
\* 'messages', and the call returns that field
C26_Witness ==
    /\ chat.pc = "done"
    /\ chat.flag = <<"T", "R", "U", "E">>
    /\ Len(chat.sent) = 2
    /\ chat.sent[1].request.via = "direct"
    /\ chat.sent[1].outcome.status = 500
    /\ chat.sent[2].request.via = "session"
    /\ chat.outcome = "returned"
    /\ chat.value.part = "messages"

\* the session requests sent so far in the call
SessionSent == {i \in 1..Len(chat.sent) : chat.sent[i].request.via = "session"}

\* the attempts of the call are bounded: one direct request at most, four
\* session requests at most (the first and three retries); a session
\* request is sent again only after a failed connection or one of the
\* statuses 429, 500, 502, 503, 504; and a call whose last response has an
\* error status raises
Bounded ==
    /\ Cardinality(SessionSent) <= 4
    /\ Len(chat.sent) <= 5
    /\ \A i \in SessionSent :
          (i < Len(chat.sent)) =>
              chat.sent[i].outcome.status \in {0, 429, 500, 502, 503, 504}
    /\ (chat.pc = "done" /\ LastSent.outcome.status >= 400) =>
          chat.outcome = "raised"
    /\ chat.pc = "done" => chat.outcome \in {"returned", "raised"}

C28_NeverVerifies ==
    \A i \in 1..Len(chat.sent) : chat.sent[i].request.verify = FALSE

\* C28 witness: a call has sent a request on each of the two paths, and the
\* session request was sent again
C28_Witness ==
    /\ Len(chat.sent) >= 3
    /\ chat.sent[1].request.via = "direct"
    /\ chat.sent[2].request.via = "session"
    /\ chat.sent[3].request.via = "session"

====
